---- MODULE Spec2Model ----
(***************************************************************************)
(* A model of the downstream side of the translator proxy:                 *)
(*   - TaskManager (translator/downstream/task_manager.rs) with the         *)
(*     AbortOnDrop handles of shared/utils.rs,                              *)
(*   - the per-session reader task (receive_from_downstream.rs),            *)
(*   - the IsServer handlers of IntermediateDownstream                      *)
(*     (intermediate_downstream.rs) and sv1_rolling (shared/utils.rs).      *)
(* Spec is the TaskManager; SessionSpec is one session (reader+handlers).  *)
(***************************************************************************)
EXTENDS Integers, Sequences, FiniteSets, TLC

\* ------------------------------------------------------------------ bounds
\* Number of tokio tasks that are ever spawned and handed to an add_* call.
MaxTasks == 3
\* Connection ids are 1..MaxConn.
MaxConn == 2
\* Capacity of the registration channel. The source uses mpsc::channel(10);
\* the model uses a smaller capacity so that a full channel is reachable.
ChanCap == 2

TaskIds == 1..MaxTasks
ConnIds == 1..MaxConn

\* Option<u32> group keys: None is <<>>, Some(c) is <<c>>.
NoneKey == <<>>
SomeKey(c) == <<c>>
Keys == {NoneKey} \cup {SomeKey(c) : c \in ConnIds}

\* The variants of enum Task.
PerConnKinds == {"ReceiveDownstream", "SendDownstream", "Notify", "Update"}
GlobalKinds == {"AcceptConnection", "SharesMonitor"}

Range(s) == {s[i] : i \in 1..Len(s)}

VARIABLES
    \* ---- TaskManager
    status,     \* tokio task id -> "new" (not spawned) | "running" |
                \*   "finished" (ran to completion) | "aborted"
    meta,       \* task id -> the group key and kind class a handle that is still
                \*   held (in the channel or the map) was handed to add_* with
    stale,      \* handles still held that were already enrolled for a connection
                \*   when abort_tasks_for_connection_id ran for it
    chan,       \* the registration channel: messages (Option<u32>, Task) in flight
    tasks,      \* TaskManager.tasks: HashMap<Option<u32>, Vec<AbortOnDrop>>
    abort,      \* TaskManager.abort: "some" | "none"
    aborter,    \* the handle returned by get_aborter: "unissued" | "held" | "dropped"
    reg,        \* registration task: "recv" | "sleep" | "dead"
    regCancel,  \* the registration task's abort handle has been dropped (abort requested)
    tmAlive,    \* the TaskManager (and its Sender) has not been dropped
    addResult,  \* what the last caller of an add_* function returned:
                \*   "none" (no call yet) | "Ok" | "TranslatorTaskManagerFailed"
    \* ---- one session: the reader task of start_receive_downstream
    rpc,        \* reader position: "recv" | "parse" | "handle" | "stats" |
                \*   "hashrate" | "kill" | "done" | "returned" | "panicked"
    cur,        \* the inbound line being processed
    nlines,     \* lines received so far
    handled,    \* lines handle_incoming_sv1 has returned for
    shares,     \* successful Downstream::save_share calls
    statsRemoved,   \* stats_sender.remove_stats calls
    hashrateCalls,  \* Downstream::remove_downstream_hashrate_from_channel calls
    hashrateFailed, \* that call returned Err
    kills,      \* connection ids sent on send_kill_signal
    downFaulty, \* ProxyState::update_downstream_state was called
    inconsistency,  \* ProxyState::update_inconsistency(Some(1)) was called
    \* ---- one session: IntermediateDownstream
    version_rolling_mask,     \* Option<HexU32Be>
    version_rolling_min_bit,  \* Option<HexU32Be>
    user_agent,               \* RefCell<String>
    recent_jobs,              \* RwLock<RecentJobs>: entries in insertion order
    connected,  \* Connected worker-activity events spawned
    lastActivity,   \* the WorkerActivity handle_authorize built last
    authorizeSeen,  \* the names handle_authorize has been called with
    authReplies,    \* the values handle_authorize returned, in call order
    subscribed, \* handle_subscribe has run on this session
    lastReply   \* what the last handler that returned replied

\* The process configuration (config.rs) and what is derived from it.
VARIABLES
    cfgOpt,     \* the valued option looked at
    cfgFlag,    \* its command-line flag: NoneOpt or Some(text)
    cfgFile,    \* its entry in the config file
    cfgEnv,     \* the process environment: variable name -> NoneOpt or Some(text)
    cfgArgs,    \* the switches --staging and --local
    cfgFileSw,  \* staging and local in the config file: Option<bool>
    cfgEnvSw,   \* whether STAGING and LOCAL are set in the environment
    CONFIG,     \* lazy_static CONFIG: NoConfig until load_config has run
    envName,    \* what Configuration::environment() returned last
    poolFrom,   \* which address fetch_pool_urls used last
    endpoint    \* what a monitor endpoint function returned last

\* One AbortOnDrop value (shared/utils.rs) and the tasks given to it.
VARIABLES
    aod,        \* abort_handle: Vec<AbortHandle>, as task ids
    aodState,   \* "unbuilt" | "live" | "dropped"
    given,      \* the tasks handed to new/from and add_task
    hstatus,    \* task id -> "new" | "running" | "finished" | "aborted"
    isFin       \* what is_finished() returned last: NoneOpt or Some(bool)

\* A SharesMonitor and its monitor() task (monitor/shares.rs, shares_monitor.rs).
VARIABLES
    mpc,        \* where monitor() is: "init" | "tick" | "send" | "clear" | "ended"
    pending,    \* the pending share list, shares numbered in insertion order
    snapshot,   \* shares_to_send
    inserted,   \* insert_share calls so far
    lastSend    \* result of the last send_shares: "none" | "ok" | "err"

\* The error-log forwarding layer (monitor/logs.rs).
VARIABLES
    origErrors,  \* ERROR events raised by the rest of the program
    logPosts,    \* send_log attempts started
    logInFlight  \* spawned send_log tasks that have not completed

\* The extranonce fields of one IntermediateDownstream and their accessors.
VARIABLES
    extranonce1,      \* IntermediateDownstream.extranonce1: Vec<u8>
    extranonce2_len,  \* IntermediateDownstream.extranonce2_len: usize
    exnCall           \* the last accessor call: its name, argument and result

\* The initial difficulty the accept task works out for each connection.
VARIABLES
    declaredRate,       \* EXPECTED_SV1_HASHPOWER, in units of 2^32/60 H/s
    sharePerMin,        \* SHARE_PER_MIN
    diffConn,           \* connections the computation has run for
    sessionDifficulty,  \* initial_difficulty given to new_downstream last
    bridgeHashrate      \* expected_hash_rate given to on_new_sv1_connection last

\* The two mutexes of the TaskManager and the tasks that take them.
VARIABLES
    lkOuter,    \* owner of the Mutex around the TaskManager: "free" or a task
    lkInner,    \* owner of the Mutex around the tasks map: "free" or a task
    lpc,        \* task -> where it is
    lqueue,     \* messages in the registration channel
    ldone       \* caller -> operations it has completed

\* The accept-connection task and the Bridge it opens channels on.
VARIABLES
    apc,            \* where the accept task is: "spawned" (not polled yet) |
                    \*   "recv" | "ready" | "open" | "create" | "ended" | "aborted"
    stopCause,      \* why the accept loop was left: "none" | "closed" |
                    \*   "not_ready" | "poisoned" | "refused"
    accSub,         \* the accept task holds its own receiver _s
    lastBroadcast,  \* result of the Bridge's last broadcast send:
                    \*   "none" | "Ok" | "NoReceivers"
    accepted,       \* connections downstreams.recv() has returned; the
                    \*   connection in hand is number `accepted`
    readyFor,       \* connections Bridge::ready returned Ok for
    opened,         \* open_sv1_downstream's Ok value for the connection in hand
    granted,        \* every channel on_new_sv1_connection has allocated
    sessions,       \* the calls of Downstream::new_downstream with their arguments
    closed,         \* connections whose (send, recv) handles were dropped
    bridgeChannels, \* channels the Bridge has allocated
    emitted         \* Notify messages the Bridge has broadcast; last_notify is
                    \*   the latest of them

tmVars == <<status, meta, stale, chan, tasks, abort, aborter, reg, regCancel, tmAlive, addResult>>
readerVars == <<rpc, cur, nlines, handled, shares, statsRemoved, hashrateCalls, hashrateFailed, kills,
                downFaulty, inconsistency>>
downVars == <<version_rolling_mask, version_rolling_min_bit, user_agent,
              recent_jobs, connected, lastActivity, authorizeSeen, authReplies,
              subscribed, lastReply>>
sessVars == <<readerVars, downVars>>
readerRest == <<rpc, cur, nlines, handled, shares, statsRemoved, hashrateCalls, hashrateFailed, kills,
                inconsistency>>
cfgVars == <<cfgOpt, cfgFlag, cfgFile, cfgEnv, cfgArgs, cfgFileSw, cfgEnvSw, CONFIG,
             envName, poolFrom, endpoint>>
aodVars == <<aod, aodState, given, hstatus, isFin>>
monVars == <<mpc, pending, snapshot, inserted, lastSend>>
logVars == <<origErrors, logPosts, logInFlight>>
exnVars == <<extranonce1, extranonce2_len, exnCall>>
diffVars == <<declaredRate, sharePerMin, diffConn, sessionDifficulty, bridgeHashrate>>
lockVars == <<lkOuter, lkInner, lpc, lqueue, ldone>>
extVars == <<exnVars, diffVars, lockVars>>
auxVars == <<cfgVars, aodVars, monVars, logVars, extVars>>
cfgOthers == <<aodVars, monVars, logVars, extVars>>
aodOthers == <<cfgVars, monVars, logVars, extVars>>
monOthers == <<cfgVars, aodVars, logVars, extVars>>
logOthers == <<cfgVars, aodVars, monVars, extVars>>
oldAux == <<cfgVars, aodVars, monVars, logVars>>
exnOthers == <<oldAux, diffVars, lockVars>>
diffOthers == <<oldAux, exnVars, lockVars>>
lockOthers == <<oldAux, exnVars, diffVars>>
accVars == <<apc, stopCause, accSub, lastBroadcast, accepted, readyFor, opened,
             granted, sessions, closed, bridgeChannels, emitted>>
coreVars == <<tmVars, sessVars, accVars>>
vars == <<coreVars, auxVars>>

\* ------------------------------------------------------------ AbortOnDrop
\* impl Drop for AbortOnDrop: abort() on every handle held. Aborting a task
\* that was never spawned does not happen (only handles of spawned tasks exist).
DropHandles(st, hs) ==
    [t \in TaskIds |-> IF t \in hs /\ st[t] = "running" THEN "aborted" ELSE st[t]]

\* A faulty AllHandles: only the global group's handles are found.
AllHandles_GlobalOnly(m) == IF NoneKey \in DOMAIN m THEN Range(m[NoneKey]) ELSE {}

\* Every AbortOnDrop stored in a tasks map.
AllHandles(m) == UNION {Range(m[k]) : k \in DOMAIN m}

\* Every AbortOnDrop travelling in the registration channel.
ChanHandles(ch) == {ch[i].task : i \in 1..Len(ch)}

EmptyMap == [k \in {} |-> <<>>]

\* The tasks enrolled under key k: stored in the map or still in the channel.
InMap(m, k) == IF k \in DOMAIN m THEN Range(m[k]) ELSE {}
InChan(ch, k) == {ch[i].task : i \in {j \in 1..Len(ch) : ch[j].key = k}}
Enrolled(k) == InMap(tasks, k) \cup InChan(chan, k)

\* No handle of the task is held.
NoMeta == [key |-> NoneKey, global |-> FALSE, enrolled |-> FALSE]

\* The enrollment records of the handles in hs only.
KeepMeta(mt, hs) == [t \in TaskIds |-> IF t \in hs THEN mt[t] ELSE NoMeta]

\* ------------------------------------------------------------ TaskManager
TMInit ==
    /\ status = [t \in TaskIds |-> "new"]
    /\ meta = [t \in TaskIds |-> NoMeta]
    /\ stale = {}
    /\ chan = <<>>
    /\ tasks = EmptyMap
    /\ abort = "some"
    /\ aborter = "unissued"
    /\ reg = "recv"
    /\ regCancel = FALSE
    /\ tmAlive = TRUE
    /\ addResult = "none"

\* The next task to be spawned (tasks are spawned in id order).
Fresh(t) == status[t] = "new" /\ \A u \in TaskIds : u < t => status[u] /= "new"

\* A faulty InsertTask: every handle is pushed to the global group.
InsertTask_Global(m, k, t) ==
    [x \in DOMAIN m \cup {NoneKey} |->
        IF x = NoneKey
          THEN (IF NoneKey \in DOMAIN m THEN Append(m[NoneKey], t) ELSE <<t>>)
          ELSE m[x]]

\* tasks.entry(connection_id).or_default().push(task.into())
InsertTask(m, k, t) ==
    [x \in DOMAIN m \cup {k} |-> IF x = k
                                   THEN (IF k \in DOMAIN m THEN Append(m[k], t) ELSE <<t>>)
                                   ELSE m[x]]

\* A faulty RemoveGroup: the group is emptied but its key stays in the map.
RemoveGroup_LeavesKey(m, c) ==
    [x \in DOMAIN m |-> IF x = SomeKey(c) THEN <<>> ELSE m[x]]

\* tasks.remove(&Some(connection_id)): the map without that key.
RemoveGroup(m, c) == [x \in DOMAIN m \ {SomeKey(c)} |-> m[x]]

\* A faulty RemovedHandles: the handles of every connection group are dropped.
RemovedHandles_EveryConnection(m, c) ==
    UNION {Range(m[k]) : k \in DOMAIN m \ {NoneKey}}

\* The handles remove(&Some(connection_id)) hands to the for/drop loop.
RemovedHandles(m, c) == IF SomeKey(c) \in DOMAIN m THEN Range(m[SomeKey(c)]) ELSE {}

\* What send_task.send(..).await.map_err(|_| ()) gives an add_* function:
\* Err(()) exactly when the receiver, owned by the registration task, is gone.
SendResult(r) == IF r = "dead" THEN "Err" ELSE "Ok"

\* add_*(..).await.map_err(|_| Error::TranslatorTaskManagerFailed), the last
\* expression of start_receive_downstream and of start_accept_connection.
CallerResult(res) == IF res = "Err" THEN "TranslatorTaskManagerFailed" ELSE "Ok"

\* A faulty Enroll: the task of a refused enrollment keeps running.
Enroll_LeavesRunning(t, k, kind) ==
    /\ tmAlive
    /\ Fresh(t)
    /\ IF reg = "dead"
         THEN /\ status' = [status EXCEPT ![t] = "running"]
              /\ chan' = chan
              /\ meta' = meta
         ELSE /\ Len(chan) < ChanCap
              /\ status' = [status EXCEPT ![t] = "running"]
              /\ chan' = Append(chan, [key |-> k, kind |-> kind, task |-> t])
              /\ meta' = [meta EXCEPT ![t] = [key |-> k, global |-> kind \in GlobalKinds,
                                              enrolled |-> TRUE]]
    /\ addResult' = CallerResult(SendResult(reg))
    /\ UNCHANGED <<stale, tasks, abort, aborter, reg, regCancel, tmAlive, sessVars, accVars, auxVars>>

\* send_task.send((key, Task::kind(abortable))).await.map_err(|_| ()):
\* the caller spawned task t and hands its AbortOnDrop over. With the receiver
\* gone the send fails and the SendError, which owns the message, is dropped.
\* With a full channel the caller stays suspended (the action is not enabled).
\* The caller then returns what CallerResult makes of the outcome.
Enroll(t, k, kind) ==
    /\ tmAlive
    /\ Fresh(t)
    /\ IF reg = "dead"
         THEN /\ status' = [status EXCEPT ![t] = "aborted"]
              /\ chan' = chan
              /\ meta' = meta
         ELSE /\ Len(chan) < ChanCap
              /\ status' = [status EXCEPT ![t] = "running"]
              /\ chan' = Append(chan, [key |-> k, kind |-> kind, task |-> t])
              /\ meta' = [meta EXCEPT ![t] = [key |-> k, global |-> kind \in GlobalKinds,
                                              enrolled |-> TRUE]]
    /\ addResult' = CallerResult(SendResult(reg))
    /\ UNCHANGED <<stale, tasks, abort, aborter, reg, regCancel, tmAlive, sessVars, accVars, auxVars>>

add_receive_downstream(t, c) == Enroll(t, SomeKey(c), "ReceiveDownstream")
add_update(t, c) == Enroll(t, SomeKey(c), "Update")
add_notify(t, c) == Enroll(t, SomeKey(c), "Notify")
add_send_downstream(t, c) == Enroll(t, SomeKey(c), "SendDownstream")
add_accept_connection(t) == Enroll(t, NoneKey, "AcceptConnection")
add_shares_monitor(t) == Enroll(t, NoneKey, "SharesMonitor")

\* The registration task's loop body: one message received and pushed.
RegRecv ==
    /\ reg = "recv"
    /\ chan /= <<>>
    /\ tasks' = InsertTask(tasks, Head(chan).key, Head(chan).task)
    /\ chan' = Tail(chan)
    /\ UNCHANGED <<status, meta, stale, abort, aborter, reg, regCancel, tmAlive, addResult, sessVars, accVars, auxVars>>

\* recv() returns None (every Sender dropped, channel drained): the task
\* warns and sleeps forever, still owning task_clone.
RegClosed ==
    /\ reg = "recv"
    /\ chan = <<>>
    /\ ~tmAlive
    /\ reg' = "sleep"
    /\ UNCHANGED <<status, meta, stale, chan, tasks, abort, aborter, regCancel, tmAlive, addResult, sessVars, accVars, auxVars>>

\* The runtime cancels the registration task after its abort handle was
\* dropped: the future is dropped, and with it the Receiver (and the messages
\* still queued) and task_clone. The map itself is dropped with its last Arc.
RegCancelled ==
    /\ regCancel
    /\ reg /= "dead"
    /\ reg' = "dead"
    /\ chan' = <<>>
    /\ IF tmAlive
         THEN /\ status' = DropHandles(status, ChanHandles(chan))
              /\ tasks' = tasks
         ELSE /\ status' = DropHandles(status, ChanHandles(chan) \cup AllHandles(tasks))
              /\ tasks' = EmptyMap
    /\ meta' = KeepMeta(meta, AllHandles(tasks'))
    /\ stale' = stale \cap AllHandles(tasks')
    /\ UNCHANGED <<abort, aborter, regCancel, tmAlive, addResult, sessVars, accVars, auxVars>>

\* pub fn get_aborter(&mut self) -> Option<AbortOnDrop> { self.abort.take() }
get_aborter ==
    /\ tmAlive
    /\ abort' = "none"
    /\ aborter' = IF abort = "some" THEN "held" ELSE aborter
    /\ UNCHANGED <<status, meta, stale, chan, tasks, reg, regCancel, tmAlive, addResult, sessVars, accVars, auxVars>>

\* Whoever took the aborter drops it: AbortOnDrop::drop aborts the registration task.
DropAborter ==
    /\ aborter = "held"
    /\ aborter' = "dropped"
    /\ regCancel' = TRUE
    /\ UNCHANGED <<status, meta, stale, chan, tasks, abort, reg, tmAlive, addResult, sessVars, accVars, auxVars>>

\* pub fn abort_tasks_for_connection_id(&mut self, connection_id: u32)
abort_tasks_for_connection_id(c) ==
    /\ tmAlive
    /\ status' = DropHandles(status, RemovedHandles(tasks, c))
    /\ tasks' = RemoveGroup(tasks, c)
    /\ meta' = KeepMeta(meta, ChanHandles(chan) \cup AllHandles(tasks'))
    /\ stale' = (stale \cup Enrolled(SomeKey(c))) \cap (ChanHandles(chan) \cup AllHandles(tasks'))
    /\ UNCHANGED <<chan, abort, aborter, reg, regCancel, tmAlive, addResult, sessVars, accVars, auxVars>>

\* The last Arc<Mutex<TaskManager>> goes: the fields are dropped in
\* declaration order, send_task, abort, tasks.
DropTaskManager ==
    /\ tmAlive
    /\ tmAlive' = FALSE
    /\ abort' = "none"
    /\ regCancel' = (regCancel \/ abort = "some")
    /\ IF reg = "dead"
         THEN /\ status' = DropHandles(status, AllHandles(tasks))
              /\ tasks' = EmptyMap
         ELSE UNCHANGED <<status, tasks>>
    /\ meta' = KeepMeta(meta, ChanHandles(chan) \cup AllHandles(tasks'))
    /\ stale' = stale \cap (ChanHandles(chan) \cup AllHandles(tasks'))
    /\ UNCHANGED <<chan, aborter, reg, addResult, sessVars, accVars, auxVars>>

\* A faulty TaskFinish: the finished task's handle is taken out of its group.
TaskFinish_Removes(t) ==
    /\ status[t] = "running"
    /\ status' = [status EXCEPT ![t] = "finished"]
    /\ tasks' = [k \in DOMAIN tasks |-> SelectSeq(tasks[k], LAMBDA u : u /= t)]
    /\ UNCHANGED <<meta, stale, chan, abort, aborter, reg, regCancel, tmAlive, addResult,
                   sessVars, accVars, auxVars>>

\* An enrolled task runs to completion on its own. Nothing in the
\* TaskManager observes it: the handle stays where it is.
TaskFinish(t) ==
    /\ status[t] = "running"
    /\ status' = [status EXCEPT ![t] = "finished"]
    /\ UNCHANGED <<meta, stale, chan, tasks, abort, aborter, reg, regCancel, tmAlive, addResult,
                   sessVars, accVars, auxVars>>

TMNext ==
    \/ \E t \in TaskIds, c \in ConnIds : add_receive_downstream(t, c)
    \/ \E t \in TaskIds, c \in ConnIds : add_update(t, c)
    \/ \E t \in TaskIds, c \in ConnIds : add_notify(t, c)
    \/ \E t \in TaskIds, c \in ConnIds : add_send_downstream(t, c)
    \/ \E t \in TaskIds : add_accept_connection(t)
    \/ \E t \in TaskIds : add_shares_monitor(t)
    \/ RegRecv
    \/ RegClosed
    \/ RegCancelled
    \/ get_aborter
    \/ DropAborter
    \/ \E c \in ConnIds : abort_tasks_for_connection_id(c)
    \/ DropTaskManager

\* The TaskManager together with the tasks it supervises running to completion.
LifeNext ==
    \/ TMNext
    \/ \E t \in TaskIds : TaskFinish(t)

\* ------------------------------------------------------------- HexU32Be
\* A u32 is kept as its two 16-bit halves (TLC's integers are 32-bit signed).
U32(h, l) == [hi |-> h, lo |-> l]
NoneOpt == <<>>
Some(v) == <<v>>

\* Bitwise and of two n-bit naturals.
RECURSIVE BitAnd(_, _, _)
BitAnd(a, b, n) ==
    IF n = 0 THEN 0
    ELSE (a % 2) * (b % 2) + 2 * BitAnd(a \div 2, b \div 2, n - 1)

\* mask & 0x1FFFE000 on u32 (0x1FFF = 8191, 0xE000 = 57344).
AndVersionMask(x) == U32(BitAnd(x.hi, 8191, 16), BitAnd(x.lo, 57344, 16))

\* A faulty sv1_rolling: the requested mask is passed through unmasked.
sv1_rolling_Unmasked(configure) ==
    << IF configure.mask = NoneOpt THEN U32(0, 0) ELSE configure.mask[1],
       IF configure.minbit = NoneOpt THEN U32(0, 0) ELSE configure.minbit[1] >>

\* pub fn sv1_rolling(configure) -> (HexU32Be, HexU32Be)
sv1_rolling(configure) ==
    << IF configure.mask = NoneOpt THEN U32(0, 0) ELSE AndVersionMask(configure.mask[1]),
       IF configure.minbit = NoneOpt THEN U32(0, 0) ELSE configure.minbit[1] >>

\* ------------------------------------------------------ inbound lines
\* Number of lines a session receives before its sender side goes quiet.
MaxLines == 3

\* version-rolling.mask values a miner asks for: absent, ffffffff, 1fffe000,
\* e0001fff (only bits outside the proxy's mask), 12345678.
ReqMasks == {NoneOpt, Some(U32(65535, 65535)), Some(U32(8191, 57344)),
             Some(U32(57344, 8191)), Some(U32(4660, 22136))}
\* version-rolling.min-bit-count values: absent, 2, 16.
ReqMinBits == {NoneOpt, Some(U32(0, 2)), Some(U32(0, 16))}
Agents == {"cgminer/4.11.1", "bmminer/2.0.0"}
Names == {"user.w1", "user.w2"}
\* Job ids a miner submits for: 1 is the first id add_job hands out.
SubmitJobs == {1, 9}

\* What recv_from_down delivers: a line that is no JSON-RPC message, or a
\* well-formed request of one of the supported methods.
Lines ==
    {[kind |-> "garbage"], [kind |-> "extranonce_subscribe"]}
    \cup {[kind |-> "configure", mask |-> m, minbit |-> b] : m \in ReqMasks, b \in ReqMinBits}
    \cup {[kind |-> "subscribe", agent |-> a] : a \in Agents}
    \cup {[kind |-> "authorize", name |-> n] : n \in Names}
    \cup {[kind |-> "submit", name |-> n, job |-> j] : n \in Names, j \in SubmitJobs}

NoLine == [kind |-> "none"]
\* WorkerActivity::new(user_agent, worker_name, activity)
WorkerActivity(agent, name, activity) ==
    [user_agent |-> agent, worker_name |-> name, activity |-> activity]
NoActivity == [activity |-> "none"]

NoReply == [method |-> "none"]

\* The connection id this session's tasks were started with.
connection_id == CHOOSE c \in ConnIds : TRUE

\* The Notify the Bridge handed to the session when its channel was opened.
first_job == "last_notify"

SessInit ==
    /\ rpc = "recv"
    /\ cur = NoLine
    /\ nlines = 0
    /\ handled = 0
    /\ shares = 0
    /\ statsRemoved = 0
    /\ hashrateCalls = 0
    /\ hashrateFailed = FALSE
    /\ kills = <<>>
    /\ downFaulty = FALSE
    /\ inconsistency = FALSE
    /\ version_rolling_mask = NoneOpt
    /\ version_rolling_min_bit = NoneOpt
    /\ user_agent = ""
    /\ recent_jobs = <<>>
    /\ connected = 0
    /\ lastActivity = NoActivity
    /\ authorizeSeen = {}
    /\ authReplies = <<>>
    /\ subscribed = FALSE
    /\ lastReply = NoReply

\* --------------------------------------------------------- RecentJobs
\* Capacity of the recent_jobs ring.
RecentJobsCap == 8

JobIds(jobs) == {jobs[i].id : i \in 1..Len(jobs)}

\* RecentJobs::add_job(&mut first_job, mask): the job is recorded under a
\* fresh v1 id with the mask given; the oldest entry leaves a full ring.
add_job(jobs, job, mask) ==
    LET fresh == IF jobs = <<>> THEN 1
                 ELSE 1 + CHOOSE i \in JobIds(jobs) : \A j \in JobIds(jobs) : j <= i
        kept == IF Len(jobs) < RecentJobsCap THEN jobs ELSE Tail(jobs)
    IN Append(kept, [id |-> fresh, job |-> job, mask |-> mask])

\* ------------------------------------------- the reader task (lines 21-76)
\* A faulty ReaderRecv: the next line is taken while the previous one is
\* still with handle_incoming_sv1.
ReaderRecv_Early ==
    /\ rpc \in {"recv", "handle"}
    /\ nlines < MaxLines
    /\ \E line \in Lines : cur' = line
    /\ nlines' = nlines + 1
    /\ rpc' = "parse"
    /\ UNCHANGED <<handled, shares, statsRemoved, hashrateCalls, hashrateFailed, kills, downFaulty,
                   inconsistency, downVars, tmVars, accVars, auxVars>>

\* while let Some(incoming) = recv_from_down.recv().await
ReaderRecv ==
    /\ rpc = "recv"
    /\ nlines < MaxLines
    /\ \E line \in Lines : cur' = line
    /\ nlines' = nlines + 1
    /\ rpc' = "parse"
    /\ UNCHANGED <<handled, shares, statsRemoved, hashrateCalls, hashrateFailed, kills, downFaulty,
                   inconsistency, downVars, tmVars, accVars, auxVars>>

\* recv() returned None: the loop ends and the shutdown path starts.
ReaderEof ==
    /\ rpc = "recv"
    /\ rpc' = "stats"
    /\ UNCHANGED <<cur, nlines, handled, shares, statsRemoved, hashrateCalls, hashrateFailed, kills,
                   downFaulty, inconsistency, downVars, tmVars, accVars, auxVars>>

\* serde_json::from_str failed: the else branch logs and returns from the task.
ReaderParseError ==
    /\ rpc = "parse"
    /\ cur.kind = "garbage"
    /\ rpc' = "returned"
    /\ UNCHANGED <<cur, nlines, handled, shares, statsRemoved, hashrateCalls, hashrateFailed, kills,
                   downFaulty, inconsistency, downVars, tmVars, accVars, auxVars>>

\* A Submit request: Downstream::save_share first; on Err the loop breaks.
ReaderSaveShare ==
    /\ rpc = "parse"
    /\ cur.kind = "submit"
    /\ \E ok \in BOOLEAN :
          IF ok THEN shares' = shares + 1 /\ rpc' = "handle"
                ELSE shares' = shares /\ rpc' = "stats"
    /\ UNCHANGED <<cur, nlines, handled, statsRemoved, hashrateCalls, hashrateFailed, kills, downFaulty,
                   inconsistency, downVars, tmVars, accVars, auxVars>>

\* Any other well-formed message goes straight to handle_incoming_sv1.
ReaderParsed ==
    /\ rpc = "parse"
    /\ cur.kind \notin {"garbage", "submit"}
    /\ rpc' = "handle"
    /\ UNCHANGED <<cur, nlines, handled, shares, statsRemoved, hashrateCalls, hashrateFailed, kills,
                   downFaulty, inconsistency, downVars, tmVars, accVars, auxVars>>

\* A faulty ReaderHandleErr: the handler error ends the loop.
ReaderHandleErr_Break ==
    /\ rpc = "handle"
    /\ downFaulty' = TRUE
    /\ rpc' = "stats"
    /\ handled' = handled + 1
    /\ UNCHANGED <<cur, nlines, shares, statsRemoved, hashrateCalls, hashrateFailed, kills,
                   inconsistency, downVars, tmVars, accVars, auxVars>>

\* handle_incoming_sv1 returned Err for a well-formed message: the reader logs,
\* marks the downstream state and goes on with the next line.
ReaderHandleErr ==
    /\ rpc = "handle"
    /\ downFaulty' = TRUE
    /\ rpc' = "recv"
    /\ handled' = handled + 1
    /\ UNCHANGED <<cur, nlines, shares, statsRemoved, hashrateCalls, hashrateFailed, kills,
                   inconsistency, downVars, tmVars, accVars, auxVars>>

\* stats_sender.remove_stats(connection_id)
ReaderRemoveStats ==
    /\ rpc = "stats"
    /\ statsRemoved' = statsRemoved + 1
    /\ rpc' = "hashrate"
    /\ UNCHANGED <<cur, nlines, handled, shares, hashrateCalls, hashrateFailed, kills, downFaulty,
                   inconsistency, downVars, tmVars, accVars, auxVars>>

\* A faulty ReaderRemoveHashrate: an Err ends the task.
ReaderRemoveHashrate_ErrReturns ==
    /\ rpc = "hashrate"
    /\ hashrateCalls' = hashrateCalls + 1
    /\ \E ok \in BOOLEAN : /\ hashrateFailed' = ~ok
                           /\ rpc' = IF ok THEN "kill" ELSE "returned"
    /\ UNCHANGED <<cur, nlines, handled, shares, statsRemoved, kills, downFaulty,
                   inconsistency, downVars, tmVars, accVars, auxVars>>

\* Downstream::remove_downstream_hashrate_from_channel: an Err is only logged.
ReaderRemoveHashrate ==
    /\ rpc = "hashrate"
    /\ hashrateCalls' = hashrateCalls + 1
    /\ \E ok \in BOOLEAN : hashrateFailed' = ~ok
    /\ rpc' = "kill"
    /\ UNCHANGED <<cur, nlines, handled, shares, statsRemoved, kills, downFaulty,
                   inconsistency, downVars, tmVars, accVars, auxVars>>

\* A faulty ReaderKill: a failed send is only logged.
ReaderKill_SilentFailure ==
    /\ rpc = "kill"
    /\ \E ok \in BOOLEAN :
          IF ok THEN kills' = Append(kills, connection_id) ELSE kills' = kills
    /\ inconsistency' = inconsistency
    /\ rpc' = "done"
    /\ UNCHANGED <<cur, nlines, handled, shares, statsRemoved, hashrateCalls, hashrateFailed, downFaulty,
                   downVars, tmVars, accVars, auxVars>>

\* send_kill_signal.send(connection_id).await; on Err update_inconsistency(Some(1)).
ReaderKill ==
    /\ rpc = "kill"
    /\ \E ok \in BOOLEAN :
          IF ok THEN kills' = Append(kills, connection_id) /\ inconsistency' = inconsistency
                ELSE kills' = kills /\ inconsistency' = TRUE
    /\ rpc' = "done"
    /\ UNCHANGED <<cur, nlines, handled, shares, statsRemoved, hashrateCalls, hashrateFailed, downFaulty,
                   downVars, tmVars, accVars, auxVars>>

\* ----------------------- IsServer for IntermediateDownstream (lines 117-241)
\* A faulty handle_configure: the new mask is also written into the jobs
\* recorded so far.
handle_configure_RewritesJobs ==
    /\ rpc = "handle"
    /\ cur.kind = "configure"
    /\ LET r == sv1_rolling(cur)
       IN /\ version_rolling_mask' = Some(r[1])
          /\ version_rolling_min_bit' = Some(r[2])
          /\ lastReply' = [method |-> "mining.configure", mask |-> r[1],
                           minbit |-> r[2], mandatory |-> FALSE]
    /\ recent_jobs' = [i \in 1..Len(recent_jobs) |->
                          [recent_jobs[i] EXCEPT !.mask = Some(sv1_rolling(cur)[1])]]
    /\ rpc' = "recv"
    /\ handled' = handled + 1
    /\ UNCHANGED <<cur, nlines, shares, statsRemoved, hashrateCalls, hashrateFailed, kills,
                   downFaulty, inconsistency, user_agent, connected,
                   lastActivity, authorizeSeen,
                   authReplies, subscribed, tmVars, accVars, auxVars>>

\* handle_configure: sv1_rolling, both values stored, VersionRollingParams
\* and Some(false) replied.
handle_configure ==
    /\ rpc = "handle"
    /\ cur.kind = "configure"
    /\ LET r == sv1_rolling(cur)
       IN /\ version_rolling_mask' = Some(r[1])
          /\ version_rolling_min_bit' = Some(r[2])
          /\ lastReply' = [method |-> "mining.configure", mask |-> r[1],
                           minbit |-> r[2], mandatory |-> FALSE]
    /\ rpc' = "recv"
    /\ handled' = handled + 1
    /\ UNCHANGED <<cur, nlines, shares, statsRemoved, hashrateCalls, hashrateFailed, kills,
                   downFaulty, inconsistency, user_agent, recent_jobs, connected,
                   lastActivity, authorizeSeen,
                   authReplies, subscribed, tmVars, accVars, auxVars>>

\* fn is_authorized(&self, _name: &str) -> bool { true }
is_authorized(name) == TRUE

\* A faulty handle_subscribe: the agent of the first subscribe is kept.
handle_subscribe_FirstAgentWins ==
    /\ rpc = "handle"
    /\ cur.kind = "subscribe"
    /\ user_agent' = IF user_agent = "" THEN cur.agent ELSE user_agent
    /\ subscribed' = TRUE
    /\ lastReply' = [method |-> "mining.subscribe",
                     result |-> << <<"mining.set_difficulty", "new_subscription_id">>,
                                   <<"mining.notify", "ae6812eb4cd7735a302a8a9dd95cf71f">> >>]
    /\ rpc' = "recv"
    /\ handled' = handled + 1
    /\ UNCHANGED <<cur, nlines, shares, statsRemoved, hashrateCalls, hashrateFailed, kills,
                   downFaulty, inconsistency, version_rolling_mask,
                   version_rolling_min_bit, recent_jobs, connected, lastActivity,
                   authorizeSeen, authReplies, tmVars, accVars, auxVars>>

\* handle_subscribe: the agent is recorded, two subscription tuples returned.
handle_subscribe ==
    /\ rpc = "handle"
    /\ cur.kind = "subscribe"
    /\ user_agent' = cur.agent
    /\ subscribed' = TRUE
    /\ lastReply' = [method |-> "mining.subscribe",
                     result |-> << <<"mining.set_difficulty", "new_subscription_id">>,
                                   <<"mining.notify", "ae6812eb4cd7735a302a8a9dd95cf71f">> >>]
    /\ rpc' = "recv"
    /\ handled' = handled + 1
    /\ UNCHANGED <<cur, nlines, shares, statsRemoved, hashrateCalls, hashrateFailed, kills,
                   downFaulty, inconsistency, version_rolling_mask,
                   version_rolling_min_bit, recent_jobs, connected, lastActivity,
                   authorizeSeen, authReplies, tmVars, accVars, auxVars>>

\* handle_authorize: a Connected WorkerActivity is spawned, first_job is added
\* to recent_jobs with the session's current mask, true is returned.
handle_authorize ==
    /\ rpc = "handle"
    /\ cur.kind = "authorize"
    /\ connected' = connected + 1
    /\ lastActivity' = WorkerActivity(user_agent, cur.name, "Connected")
    /\ authorizeSeen' = authorizeSeen \cup {cur.name}
    /\ recent_jobs' = add_job(recent_jobs, first_job, version_rolling_mask)
    /\ authReplies' = Append(authReplies, TRUE)
    /\ lastReply' = [method |-> "mining.authorize", result |-> TRUE]
    /\ rpc' = "recv"
    /\ handled' = handled + 1
    /\ UNCHANGED <<cur, nlines, shares, statsRemoved, hashrateCalls, hashrateFailed, kills,
                   downFaulty, inconsistency, version_rolling_mask,
                   version_rolling_min_bit, user_agent, subscribed, tmVars, accVars, auxVars>>

\* handle_submit: unimplemented!() panics; the panic unwinds the reader task,
\* which ends without running its shutdown path.
handle_submit ==
    /\ rpc = "handle"
    /\ cur.kind = "submit"
    /\ rpc' = "panicked"
    /\ UNCHANGED <<cur, nlines, handled, shares, statsRemoved, hashrateCalls, hashrateFailed, kills,
                   downFaulty, inconsistency, downVars, tmVars, accVars, auxVars>>

\* handle_extranonce_subscribe: nothing happens.
handle_extranonce_subscribe ==
    /\ rpc = "handle"
    /\ cur.kind = "extranonce_subscribe"
    /\ rpc' = "recv"
    /\ handled' = handled + 1
    /\ UNCHANGED <<cur, nlines, shares, statsRemoved, hashrateCalls, hashrateFailed, kills,
                   downFaulty, inconsistency, downVars, tmVars, accVars, auxVars>>

SessNext ==
    \/ ReaderRecv
    \/ ReaderEof
    \/ ReaderParseError
    \/ ReaderSaveShare
    \/ ReaderParsed
    \/ ReaderHandleErr
    \/ ReaderRemoveStats
    \/ ReaderRemoveHashrate
    \/ ReaderKill
    \/ handle_configure
    \/ handle_subscribe
    \/ handle_authorize
    \/ handle_submit
    \/ handle_extranonce_subscribe

\* ---------------------------------------------------------------- Bridge
\* The Bridge is not part of these sources; its channel allocator and its
\* Notify broadcast are taken from the specification (section 4.3).
MaxAccept == 3
MaxChannels == 2
MaxNotify == 2

AcceptIds == 1..MaxAccept

\* extranonce2_len of every channel.
Extranonce2Len == 4

NoOpened == <<>>

\* on_new_sv1_connection's Ok value: the n-th channel, its extranonce prefix
\* (the channel identity in the leading bits), and the cached last_notify.
OpenedChannel(n, notify) ==
    [channel_id |-> n, extranonce |-> <<n>>, extranonce2_len |-> Extranonce2Len,
     last_notify |-> notify]

\* What a broadcast send returns. The accept task's receiver is enough for
\* Ok; without it the send fails when no session was ever created, and
\* otherwise depends on whether a session's receiver is still around.
BroadcastResults(sub, ss) ==
    IF sub THEN {"Ok"}
    ELSE IF ss = {} THEN {"NoReceivers"}
    ELSE {"Ok", "NoReceivers"}

\* A Notify is built, broadcast on tx_mining_notify and becomes last_notify.
BridgeNotify ==
    /\ emitted < MaxNotify
    /\ emitted' = emitted + 1
    /\ \E res \in BroadcastResults(accSub, sessions) : lastBroadcast' = res
    /\ UNCHANGED <<apc, stopCause, accSub, accepted, readyFor, opened, granted,
                   sessions, closed, bridgeChannels, tmVars, sessVars, auxVars>>

\* ------------------------------- the accept task (accept_connection.rs 30-112)
AccInit ==
    /\ apc = "spawned"
    /\ stopCause = "none"
    /\ accSub = FALSE
    /\ lastBroadcast = "none"
    /\ accepted = 0
    /\ readyFor = {}
    /\ opened = NoOpened
    /\ granted = {}
    /\ sessions = {}
    /\ closed = {}
    /\ bridgeChannels = 0
    /\ emitted = 0

\* A faulty AcceptStart: the loop is entered without a receiver of its own.
AcceptStart_NoReceiver ==
    /\ apc = "spawned"
    /\ accSub' = FALSE
    /\ apc' = "recv"
    /\ UNCHANGED <<stopCause, lastBroadcast, accepted, readyFor, opened, granted,
                   sessions, closed, bridgeChannels, emitted, tmVars, sessVars, auxVars>>

\* The spawned task is polled for the first time:
\* let _s = tx_mining_notify.subscribe(); then the loop is entered.
AcceptStart ==
    /\ apc = "spawned"
    /\ accSub' = TRUE
    /\ apc' = "recv"
    /\ UNCHANGED <<stopCause, lastBroadcast, accepted, readyFor, opened, granted,
                   sessions, closed, bridgeChannels, emitted, tmVars, sessVars, auxVars>>

\* while let Some((send, recv, addr)) = downstreams.recv().await
AcceptRecv ==
    /\ apc = "recv"
    /\ accepted < MaxAccept
    /\ accepted' = accepted + 1
    /\ apc' = "ready"
    /\ UNCHANGED <<stopCause, accSub, lastBroadcast, readyFor, opened, granted,
                   sessions, closed, bridgeChannels, emitted, tmVars, sessVars, auxVars>>

\* downstreams.recv() returned None: the loop and the task end, and the
\* task's locals, _s among them, are dropped.
AcceptClosed ==
    /\ apc = "recv"
    /\ apc' = "ended"
    /\ stopCause' = "closed"
    /\ accSub' = FALSE
    /\ UNCHANGED <<lastBroadcast, accepted, readyFor, opened, granted, sessions,
                   closed, bridgeChannels, emitted, tmVars, sessVars, auxVars>>

\* A faulty AcceptReady: a Bridge that is not ready only costs the
\* connection in hand, and the loop goes on.
AcceptReady_SkipsConnection ==
    /\ apc = "ready"
    /\ \E ok \in BOOLEAN :
          IF ok THEN /\ readyFor' = readyFor \cup {accepted}
                     /\ apc' = "open"
                     /\ UNCHANGED <<closed, stopCause, accSub>>
                ELSE /\ readyFor' = readyFor
                     /\ apc' = "recv"
                     /\ closed' = closed \cup {accepted}
                     /\ stopCause' = "not_ready"
                     /\ accSub' = accSub
    /\ UNCHANGED <<lastBroadcast, accepted, opened, granted, sessions, bridgeChannels,
                   emitted, tmVars, sessVars, auxVars>>

\* match Bridge::ready(&bridge).await: Ok goes on, Err breaks out of the
\* loop, dropping the connection's send and recv; the task ends and drops _s.
AcceptReady ==
    /\ apc = "ready"
    /\ \E ok \in BOOLEAN :
          IF ok THEN /\ readyFor' = readyFor \cup {accepted}
                     /\ apc' = "open"
                     /\ UNCHANGED <<closed, stopCause, accSub>>
                ELSE /\ readyFor' = readyFor
                     /\ apc' = "ended"
                     /\ closed' = closed \cup {accepted}
                     /\ stopCause' = "not_ready"
                     /\ accSub' = FALSE
    /\ UNCHANGED <<lastBroadcast, accepted, opened, granted, sessions, bridgeChannels,
                   emitted, tmVars, sessVars, auxVars>>

\* A faulty AcceptOpen: a failed open also tears down the sessions opened before.
AcceptOpen_ClosesAll ==
    /\ apc = "open"
    /\ \E outcome \in {"opened", "refused", "poisoned"} :
          IF outcome = "opened"
            THEN /\ bridgeChannels < MaxChannels
                 /\ bridgeChannels' = bridgeChannels + 1
                 /\ opened' = OpenedChannel(bridgeChannels + 1, emitted)
                 /\ granted' = granted \cup {[conn |-> accepted, chan |-> opened']}
                 /\ apc' = "create"
                 /\ UNCHANGED <<stopCause, accSub>>
                 /\ UNCHANGED <<closed, downFaulty, sessions>>
            ELSE /\ apc' = "ended"
                 /\ stopCause' = outcome
                 /\ accSub' = FALSE
                 /\ closed' = closed \cup {accepted}
                 /\ downFaulty' = (downFaulty \/ outcome = "refused")
                 /\ sessions' = {}
                 /\ UNCHANGED <<bridgeChannels, opened, granted>>
    /\ UNCHANGED <<lastBroadcast, accepted, readyFor, emitted, tmVars, readerRest, downVars, auxVars>>

\* bridge.safe_lock(|s| s.on_new_sv1_connection(expected_hash_rate)) and the
\* match on its result. A poisoned lock breaks out of the loop. Inside the
\* lock the Bridge either allocates the next channel and hands out the cached
\* last_notify, or refuses (no extranonce space left, upstream not ready,
\* hashrate rejected): the Err arm marks the downstream state and breaks.
\* Either break drops the connection's send and recv.
AcceptOpen ==
    /\ apc = "open"
    /\ \E outcome \in {"opened", "refused", "poisoned"} :
          IF outcome = "opened"
            THEN /\ bridgeChannels < MaxChannels
                 /\ bridgeChannels' = bridgeChannels + 1
                 /\ opened' = OpenedChannel(bridgeChannels + 1, emitted)
                 /\ granted' = granted \cup {[conn |-> accepted, chan |-> opened']}
                 /\ apc' = "create"
                 /\ UNCHANGED <<stopCause, accSub>>
                 /\ UNCHANGED <<closed, downFaulty>>
            ELSE /\ apc' = "ended"
                 /\ stopCause' = outcome
                 /\ accSub' = FALSE
                 /\ closed' = closed \cup {accepted}
                 /\ downFaulty' = (downFaulty \/ outcome = "refused")
                 /\ UNCHANGED <<bridgeChannels, opened, granted>>
    /\ UNCHANGED <<lastBroadcast, accepted, readyFor, sessions, emitted, tmVars, readerRest, downVars, auxVars>>

\* A faulty NewSession: the session is given the first channel's id.
NewSession_FirstChannel(conn, o, sub) ==
    [conn |-> conn, channel_id |-> 1, extranonce |-> o.extranonce,
     extranonce2_len |-> o.extranonce2_len, last_notify |-> o.last_notify,
     subAt |-> sub]

\* The arguments of Downstream::new_downstream (lines 88-102): the fields of
\* opened (extranonce2_len widened to usize, which keeps its value) and a
\* receiver subscribed now, which yields the Notify messages broadcast after
\* number sub.
NewSession(conn, o, sub) ==
    [conn |-> conn, channel_id |-> o.channel_id, extranonce |-> o.extranonce,
     extranonce2_len |-> o.extranonce2_len, last_notify |-> o.last_notify,
     subAt |-> sub]

\* Ok(opened) => Downstream::new_downstream(.., tx_mining_notify.subscribe(), ..).await
\* send and recv move into the session.
AcceptNewDownstream ==
    /\ apc = "create"
    /\ sessions' = sessions \cup {NewSession(accepted, opened, emitted)}
    /\ opened' = NoOpened
    /\ apc' = "recv"
    /\ UNCHANGED <<stopCause, accSub, lastBroadcast, accepted, readyFor, granted,
                   closed, bridgeChannels, emitted, tmVars, sessVars, auxVars>>

\* The task is aborted (its AbortOnDrop in the TaskManager's global group is
\* dropped). The abort takes effect where the task is suspended: before its
\* first poll, in downstreams.recv(), in Bridge::ready or in new_downstream.
\* The task's future is dropped with what it owns: _s and the connection in hand.
AcceptAbort ==
    /\ apc \in {"spawned", "recv", "ready", "create"}
    /\ apc' = "aborted"
    /\ accSub' = FALSE
    /\ closed' = IF apc \in {"ready", "create"} THEN closed \cup {accepted} ELSE closed
    /\ UNCHANGED <<stopCause, lastBroadcast, accepted, readyFor, opened, granted,
                   sessions, bridgeChannels, emitted, tmVars, sessVars, auxVars>>

AccNext ==
    \/ AcceptStart
    \/ AcceptRecv
    \/ AcceptClosed
    \/ AcceptReady
    \/ AcceptOpen
    \/ AcceptNewDownstream
    \/ BridgeNotify

\* The accept task together with its abort.
AccLifeNext == AccNext \/ AcceptAbort

\* ------------------------------------------------------------- config.rs
\* A value is known by where it came from: "flag", "file", "env" or
\* "default"; "file?" and "env?" are texts that do not parse as a number.
Options == {"token", "tp_address", "interval", "delay", "downstream_hashrate",
            "listening_addr", "api_server_port", "loglevel", "nc_loglevel"}
NumericOptions == {"interval", "delay", "downstream_hashrate"}
DefaultedOptions == Options \ {"token", "tp_address", "listening_addr"}

\* The environment variable an option is named after.
OwnEnvVar(opt) ==
    CASE opt = "token" -> "TOKEN"
      [] opt = "tp_address" -> "TP_ADDRESS"
      [] opt = "interval" -> "INTERVAL"
      [] opt = "delay" -> "DELAY"
      [] opt = "downstream_hashrate" -> "DOWNSTREAM_HASHRATE"
      [] opt = "listening_addr" -> "LISTENING_ADDR"
      [] opt = "api_server_port" -> "API_SERVER_PORT"
      [] opt = "loglevel" -> "LOGLEVEL"
      [] opt = "nc_loglevel" -> "NC_LOGLEVEL"

\* The variable load_config passes to std::env::var for the option.
EnvVarRead(opt) ==
    IF opt = "listening_addr" THEN "DOWNSTREAM_HASHRATE" ELSE OwnEnvVar(opt)

EnvNames == {OwnEnvVar(o) : o \in Options}

FlagVals == {NoneOpt, Some("flag")}
EnvVals == {NoneOpt, Some("env"), Some("env?")}
\* interval and delay are integers in the file; the other entries are strings.
FileVals(opt) ==
    IF opt \in {"interval", "delay"} THEN {NoneOpt, Some("file")}
    ELSE {NoneOpt, Some("file"), Some("file?")}
OptBool == {NoneOpt, Some(FALSE), Some(TRUE)}

\* Option::or
Or(a, b) == IF a /= NoneOpt THEN a ELSE b

\* .and_then(|s| s.parse().ok()) to a number, and parse_hashrate(d).ok()
ParseNumber(v) ==
    IF v /= NoneOpt /\ v[1] \in {"env?", "file?"} THEN NoneOpt ELSE v

\* Option::unwrap_or
UnwrapOr(a, d) == IF a /= NoneOpt THEN a[1] ELSE d

\* load_config's resolution of one valued option (lines 210-286):
\* args.x.or(config.x).or_else(|| std::env::var(..)..), with unwrap_or(default)
\* where the field is not an Option.
Resolve(opt, flag, file, env) ==
    LET e == env[EnvVarRead(opt)]
        r == IF opt \in {"interval", "delay"}
               THEN Or(Or(flag, file), ParseNumber(e))
             ELSE IF opt = "downstream_hashrate"
               THEN Or(Or(flag, ParseNumber(file)), ParseNumber(e))
             ELSE Or(Or(flag, file), e)
    IN IF opt \in DefaultedOptions THEN Some(UnwrapOr(r, "default")) ELSE r

\* args.staging || config.staging.unwrap_or(false) || std::env::var("STAGING").is_ok()
Switch(arg, file, env) == arg \/ UnwrapOr(file, FALSE) \/ env

NoConfig == [loaded |-> FALSE]
NoEndpoint == <<>>

CfgInit ==
    /\ cfgOpt \in Options
    /\ cfgFlag \in FlagVals
    /\ cfgFile \in FileVals(cfgOpt)
    /\ \E own \in EnvVals, read \in EnvVals :
          /\ (EnvVarRead(cfgOpt) = OwnEnvVar(cfgOpt)) => read = own
          /\ cfgEnv = [n \in EnvNames |-> IF n = OwnEnvVar(cfgOpt) THEN own
                                          ELSE IF n = EnvVarRead(cfgOpt) THEN read
                                          ELSE NoneOpt]
    /\ cfgArgs \in [staging : BOOLEAN, local : BOOLEAN]
    /\ cfgFileSw \in [staging : OptBool, local : OptBool]
    /\ cfgEnvSw \in [staging : BOOLEAN, local : BOOLEAN]
    /\ CONFIG = NoConfig
    /\ envName = ""
    /\ poolFrom = ""
    /\ endpoint = NoEndpoint

\* fn load_config() -> Self, run once by lazy_static on first use of CONFIG.
load_config ==
    /\ CONFIG = NoConfig
    /\ CONFIG' = [loaded |-> TRUE,
                  value |-> Resolve(cfgOpt, cfgFlag, cfgFile, cfgEnv),
                  staging |-> Switch(cfgArgs.staging, cfgFileSw.staging, cfgEnvSw.staging),
                  local |-> Switch(cfgArgs.local, cfgFileSw.local, cfgEnvSw.local)]
    /\ UNCHANGED <<cfgOpt, cfgFlag, cfgFile, cfgEnv, cfgArgs, cfgFileSw, cfgEnvSw,
                   envName, poolFrom, endpoint, coreVars, cfgOthers>>

\* pub fn environment() -> String
EnvironmentOf(c) ==
    IF c.staging THEN "staging" ELSE IF c.local THEN "local" ELSE "production"

environment ==
    /\ CONFIG /= NoConfig
    /\ envName' = EnvironmentOf(CONFIG)
    /\ UNCHANGED <<cfgOpt, cfgFlag, cfgFile, cfgEnv, cfgArgs, cfgFileSw, cfgEnvSw,
                   CONFIG, poolFrom, endpoint, coreVars, cfgOthers>>

\* fetch_pool_urls: 127.0.0.1:20000 if CONFIG.local, else the staging or the
\* production server is asked.
fetch_pool_urls ==
    /\ CONFIG /= NoConfig
    /\ poolFrom' = IF CONFIG.local THEN "local"
                   ELSE IF CONFIG.staging THEN "staging" ELSE "production"
    /\ UNCHANGED <<cfgOpt, cfgFlag, cfgFile, cfgEnv, cfgArgs, cfgFileSw, cfgEnvSw,
                   CONFIG, envName, endpoint, coreVars, cfgOthers>>

\* match Configuration::environment().as_str() { "staging" => STAGING_URL, .. }
EndpointBase(env) ==
    CASE env = "staging" -> "STAGING_URL"
      [] env = "testnet3" -> "TESTNET3_URL"
      [] env = "local" -> "LOCAL_URL"
      [] env = "production" -> "PRODUCTION_URL"

\* proxy_log_server_endpoint, shares_server_endpoint, worker_activity_server_endpoint
server_endpoint ==
    /\ CONFIG /= NoConfig
    /\ \E path \in {"/api/proxy/logs", "/api/share/save", "/api/worker/activity"} :
          endpoint' = <<EndpointBase(EnvironmentOf(CONFIG)), path>>
    /\ UNCHANGED <<cfgOpt, cfgFlag, cfgFile, cfgEnv, cfgArgs, cfgFileSw, cfgEnvSw,
                   CONFIG, envName, poolFrom, coreVars, cfgOthers>>

CfgNext ==
    \/ load_config
    \/ environment
    \/ fetch_pool_urls
    \/ server_endpoint

\* ---------------------------------------------- AbortOnDrop (utils.rs 7-44)
AodInit ==
    /\ aod = <<>>
    /\ aodState = "unbuilt"
    /\ given = {}
    /\ hstatus = [t \in TaskIds |-> "new"]
    /\ isFin = NoneOpt

\* AbortOnDrop::new(handle) / From<JoinHandle<T>>: vec![handle.abort_handle()]
AodNew(t) ==
    /\ aodState = "unbuilt"
    /\ hstatus[t] = "new"
    /\ hstatus' = [hstatus EXCEPT ![t] = "running"]
    /\ aod' = <<t>>
    /\ aodState' = "live"
    /\ given' = {t}
    /\ UNCHANGED <<isFin, coreVars, aodOthers>>

\* A faulty AodAddTask: the new handle takes the place of the ones held.
AodAddTask_Replaces(t) ==
    /\ aodState = "live"
    /\ hstatus[t] = "new"
    /\ hstatus' = [hstatus EXCEPT ![t] = "running"]
    /\ aod' = <<t>>
    /\ given' = given \cup {t}
    /\ UNCHANGED <<aodState, isFin, coreVars, aodOthers>>

\* add_task(handle): self.abort_handle.push(handle.abort_handle())
AodAddTask(t) ==
    /\ aodState = "live"
    /\ hstatus[t] = "new"
    /\ hstatus' = [hstatus EXCEPT ![t] = "running"]
    /\ aod' = Append(aod, t)
    /\ given' = given \cup {t}
    /\ UNCHANGED <<aodState, isFin, coreVars, aodOthers>>

\* A held task runs to completion.
AodTaskFinish(t) ==
    /\ hstatus[t] = "running"
    /\ hstatus' = [hstatus EXCEPT ![t] = "finished"]
    /\ UNCHANGED <<aod, aodState, given, isFin, coreVars, aodOthers>>

\* AbortHandle::is_finished: the task has completed or its cancellation has.
HandleFinished(st, t) == st[t] \in {"finished", "aborted"}

\* pub fn is_finished(&self) -> bool: false at the first unfinished handle.
is_finished(hs, st) == \A i \in 1..Len(hs) : HandleFinished(st, hs[i])

AodIsFinished ==
    /\ aodState = "live"
    /\ isFin' = Some(is_finished(aod, hstatus))
    /\ UNCHANGED <<aod, aodState, given, hstatus, coreVars, aodOthers>>

\* impl Drop for AbortOnDrop: task.abort() for every handle in the vector.
AodDrop ==
    /\ aodState = "live"
    /\ hstatus' = DropHandles(hstatus, Range(aod))
    /\ aodState' = "dropped"
    /\ UNCHANGED <<aod, given, isFin, coreVars, aodOthers>>

AodNext ==
    \/ \E t \in TaskIds : AodNew(t)
    \/ \E t \in TaskIds : AodAddTask(t)
    \/ \E t \in TaskIds : AodTaskFinish(t)
    \/ AodIsFinished
    \/ AodDrop

\* --------------------------------------------------------- SharesMonitor
MonInit ==
    /\ mpc = "init"
    /\ pending = <<>>
    /\ snapshot = <<>>
    /\ inserted = 0
    /\ lastSend = "none"

\* Shares that may be inserted.
MaxShares == 22

\* const BATCH_SIZE: u32 = 20
BATCH_SIZE == 20

\* insert_share (the same in both files): the share is pushed onto the list.
insert_share ==
    /\ inserted < MaxShares
    /\ inserted' = inserted + 1
    /\ pending' = Append(pending, inserted + 1)
    /\ UNCHANGED <<mpc, snapshot, lastSend, coreVars, monOthers>>

\* monitor/shares.rs: MonitorAPI::new(..).await, Err returns from monitor();
\* then the interval is created and its first tick completes at once.
MonStart ==
    /\ mpc = "init"
    /\ \E ok \in BOOLEAN : mpc' = IF ok THEN "tick" ELSE "ended"
    /\ UNCHANGED <<pending, snapshot, inserted, lastSend, coreVars, monOthers>>

\* interval.tick().await; let shares_to_send = self.get_next_shares();
\* an empty list is only warned about.
MonTick ==
    /\ mpc = "tick"
    /\ snapshot' = pending
    /\ mpc' = IF pending /= <<>> THEN "send" ELSE "tick"
    /\ UNCHANGED <<pending, inserted, lastSend, coreVars, monOthers>>

\* A faulty MonSend: the list is cleared whatever send_shares returned.
MonSend_AlwaysClears ==
    /\ mpc = "send"
    /\ \E ok \in BOOLEAN : lastSend' = IF ok THEN "ok" ELSE "err"
    /\ mpc' = "clear"
    /\ UNCHANGED <<pending, snapshot, inserted, coreVars, monOthers>>

\* match api.send_shares(shares_to_send.clone()).await: Ok goes on to clear,
\* Err warns and waits for the next tick.
MonSend ==
    /\ mpc = "send"
    /\ \E ok \in BOOLEAN :
          /\ lastSend' = IF ok THEN "ok" ELSE "err"
          /\ mpc' = IF ok THEN "clear" ELSE "tick"
    /\ UNCHANGED <<pending, snapshot, inserted, coreVars, monOthers>>

\* self.clear_next_shares(): event.clear()
MonClear ==
    /\ mpc = "clear"
    /\ pending' = <<>>
    /\ mpc' = "tick"
    /\ UNCHANGED <<snapshot, inserted, lastSend, coreVars, monOthers>>

SharesNext ==
    \/ insert_share
    \/ MonStart
    \/ MonTick
    \/ MonSend
    \/ MonClear

\* shares_monitor.rs: MonitorAPI::new, the interval and its first tick.
BatchStart ==
    /\ mpc = "init"
    /\ mpc' = "tick"
    /\ UNCHANGED <<pending, snapshot, inserted, lastSend, coreVars, monOthers>>

\* A faulty BatchTick: any non-empty list is sent.
BatchTick_AnyPending ==
    /\ mpc = "tick"
    /\ snapshot' = pending
    /\ mpc' = IF pending /= <<>> THEN "send" ELSE "tick"
    /\ UNCHANGED <<pending, inserted, lastSend, coreVars, monOthers>>

\* interval.tick().await; let shares_to_send = self.get_pending_shares();
\* a send is attempted only for batch_size shares or more.
BatchTick ==
    /\ mpc = "tick"
    /\ snapshot' = pending
    /\ mpc' = IF pending /= <<>> /\ Len(pending) >= BATCH_SIZE THEN "send" ELSE "tick"
    /\ UNCHANGED <<pending, inserted, lastSend, coreVars, monOthers>>

\* match api.send_shares(..).await: both arms only log.
BatchSend ==
    /\ mpc = "send"
    /\ \E ok \in BOOLEAN : lastSend' = IF ok THEN "ok" ELSE "err"
    /\ mpc' = "clear"
    /\ UNCHANGED <<pending, snapshot, inserted, coreVars, monOthers>>

\* self.clear_pending_shares(); // Clear after sending
BatchClear ==
    /\ mpc = "clear"
    /\ pending' = <<>>
    /\ mpc' = "tick"
    /\ UNCHANGED <<snapshot, inserted, lastSend, coreVars, monOthers>>

BatchNext ==
    \/ insert_share
    \/ BatchStart
    \/ BatchTick
    \/ BatchSend
    \/ BatchClear

\* ------------------------------------------------------------ SendLogLayer
LogInit ==
    /\ origErrors = 0
    /\ logPosts = 0
    /\ logInFlight = 0

MaxErrors == 3
MaxPosts == 12

\* on_event: an event of level ERROR spawns one task that calls send_log;
\* events of other levels are ignored. The number of tasks spawned.
on_event(level) == IF level = "ERROR" THEN 1 ELSE 0

\* Some part of the program logs an event; the layer sees it.
LogEvent(level) ==
    /\ origErrors < MaxErrors
    /\ logPosts + on_event(level) <= MaxPosts
    /\ origErrors' = origErrors + on_event(level)
    /\ logPosts' = logPosts + on_event(level)
    /\ logInFlight' = logInFlight + on_event(level)
    /\ UNCHANGED <<coreVars, logOthers>>

\* send_log returned Ok: the spawned task ends.
LogSendOk ==
    /\ logInFlight > 0
    /\ logInFlight' = logInFlight - 1
    /\ UNCHANGED <<origErrors, logPosts, coreVars, logOthers>>

\* The request itself failed (send().await?): the spawned task logs
\* error!("Failed to send log to API") and ends; the layer sees that event.
LogSendTransportErr ==
    /\ logInFlight > 0
    /\ logPosts + on_event("ERROR") <= MaxPosts
    /\ logPosts' = logPosts + on_event("ERROR")
    /\ logInFlight' = logInFlight - 1 + on_event("ERROR")
    /\ UNCHANGED <<origErrors, coreVars, logOthers>>

\* The server answered with an error status: send_log logs
\* error!("Failed to send log") and the spawned task logs its own error.
LogSendStatusErr ==
    /\ logInFlight > 0
    /\ logPosts + 2 * on_event("ERROR") <= MaxPosts
    /\ logPosts' = logPosts + 2 * on_event("ERROR")
    /\ logInFlight' = logInFlight - 1 + 2 * on_event("ERROR")
    /\ UNCHANGED <<origErrors, coreVars, logOthers>>

LogNext ==
    \/ \E level \in {"ERROR", "WARN", "INFO"} : LogEvent(level)
    \/ LogSendOk
    \/ LogSendTransportErr
    \/ LogSendStatusErr

\* No option is given anywhere and CONFIG has not been used.
\* ------------------------- extranonce accessors of IntermediateDownstream
\* Extranonce wraps a B032: at most 32 bytes.
MaxExtranonceLen == 32

\* The extranonce prefixes a session is created with, as byte strings.
Extranonces == {<<>>, <<0>>, <<255>>, <<1, 2>>, <<0, 0, 0, 1>>}
\* extranonce2 lengths a session is created with.
Extranonce2Lens == {2, 4, 8}

NoCall == [op |-> "none"]

\* Vec<u8>::try_into::<Extranonce>().expect(..): the same bytes, or a panic
\* for more than 32 of them.
ToExtranonce(v) == IF Len(v) <= MaxExtranonceLen THEN [bytes |-> v] ELSE [panic |-> TRUE]

ExnUnset ==
    /\ extranonce1 = <<>>
    /\ extranonce2_len = Extranonce2Len
    /\ exnCall = NoCall

\* A session right after its creation, with any of the values above.
ExnInit ==
    /\ extranonce1 \in Extranonces
    /\ extranonce2_len \in Extranonce2Lens
    /\ exnCall = NoCall

\* A faulty set_extranonce1: a given value replaces the stored one.
set_extranonce1_Stores(arg) ==
    /\ extranonce1' = IF arg = NoneOpt THEN extranonce1 ELSE arg[1]
    /\ exnCall' = [op |-> "set_extranonce1", arg |-> arg, result |-> ToExtranonce(extranonce1')]
    /\ UNCHANGED <<extranonce2_len, coreVars, exnOthers>>

\* fn set_extranonce1(&mut self, _extranonce1: Option<Extranonce>) -> Extranonce
set_extranonce1(arg) ==
    /\ exnCall' = [op |-> "set_extranonce1", arg |-> arg, result |-> ToExtranonce(extranonce1)]
    /\ UNCHANGED <<extranonce1, extranonce2_len, coreVars, exnOthers>>

\* fn extranonce1(&self) -> Extranonce
get_extranonce1 ==
    /\ exnCall' = [op |-> "extranonce1", arg |-> NoneOpt, result |-> ToExtranonce(extranonce1)]
    /\ UNCHANGED <<extranonce1, extranonce2_len, coreVars, exnOthers>>

\* fn set_extranonce2_size(&mut self, _extra_nonce2_size: Option<usize>) -> usize
set_extranonce2_size(arg) ==
    /\ exnCall' = [op |-> "set_extranonce2_size", arg |-> arg, result |-> extranonce2_len]
    /\ UNCHANGED <<extranonce1, extranonce2_len, coreVars, exnOthers>>

\* fn extranonce2_size(&self) -> usize
extranonce2_size ==
    /\ exnCall' = [op |-> "extranonce2_size", arg |-> NoneOpt, result |-> extranonce2_len]
    /\ UNCHANGED <<extranonce1, extranonce2_len, coreVars, exnOthers>>

ExnNext ==
    \/ \E arg \in {NoneOpt} \cup {Some(e) : e \in Extranonces} : set_extranonce1(arg)
    \/ get_extranonce1
    \/ \E arg \in {NoneOpt} \cup {Some(n) : n \in Extranonce2Lens} : set_extranonce2_size(arg)
    \/ extranonce2_size

\* ------------------- initial difficulty (accept_connection.rs, lines 36-58)
\* Hashrates are counted in units of 2^32/60 H/s, so that
\* share_per_second * 2^32 = (SHARE_PER_MIN / 60) * 2^32 is SHARE_PER_MIN units.
\* Fractions are pairs of a numerator and a positive denominator. The f32
\* rounding of the products and quotients is not represented.
Frac(n, d) == [num |-> n, den |-> d]
FracEq(a, b) == a.num * b.den = b.num * a.den
NoFrac == Frac(0, 1)

\* Declared hashrates: values on both sides of the snapping boundaries
\* (1 TH/s is about 13970 units).
DeclaredRates == {4, 31, 32, 100, 316, 317, 1000, 2000, 5000, 13970}
SharePerMinValues == {6, 10, 60}

\* The exponents of the powers of ten in reach of these inputs.
Exps == -1..4
Pow10(k) == IF k >= 0 THEN Frac(10 ^ k, 1) ELSE Frac(1, 10 ^ (0 - k))

\* q is at least the geometric middle between 10^(k-1) and 10^k
\* (3.162 * 10^(k-1), to three decimals).
AtLeastMiddle(q, k) ==
    LET lo == Pow10(k - 1)
    IN q.num * 1000 * lo.den >= 3162 * lo.num * q.den

\* diff_management::nearest_power_of_10: the power of ten nearest to q.
nearest_power_of_10(q) ==
    LET ks == {k \in Exps : AtLeastMiddle(q, k)}
    IN IF ks = {} THEN Pow10(-1)
       ELSE Pow10(CHOOSE k \in ks : \A j \in ks : j <= k)

\* initial_hash_rate / (share_per_second * 2f32.powf(32.0))
InitialDifficulty(rate, spm) == Frac(rate.num, rate.den * spm)

\* A faulty ExpectedHashRate: the declared hashrate is passed on as it is.
ExpectedHashRate_Declared(spm, difficulty) == Frac(declaredRate, 1)

\* (SHARE_PER_MIN / 60.0) * initial_difficulty * 2f32.powf(32.0)
ExpectedHashRate(spm, difficulty) == Frac(spm * difficulty.num, difficulty.den)

DiffUnset ==
    /\ declaredRate = 1000
    /\ sharePerMin = 10
    /\ diffConn = 0
    /\ sessionDifficulty = NoFrac
    /\ bridgeHashrate = NoFrac

DiffInit ==
    /\ declaredRate \in DeclaredRates
    /\ sharePerMin \in SharePerMinValues
    /\ diffConn = 0
    /\ sessionDifficulty = NoFrac
    /\ bridgeHashrate = NoFrac

\* The computation at the head of the loop body and the two places its
\* results go: on_new_sv1_connection(expected_hash_rate) and
\* new_downstream(.., initial_difficulty, ..).
AcceptDifficulty ==
    /\ diffConn < MaxAccept
    /\ diffConn' = diffConn + 1
    /\ LET initial_difficulty ==
               nearest_power_of_10(InitialDifficulty(Frac(declaredRate, 1), sharePerMin))
       IN /\ sessionDifficulty' = initial_difficulty
          /\ bridgeHashrate' = ExpectedHashRate(sharePerMin, initial_difficulty)
    /\ UNCHANGED <<declaredRate, sharePerMin, coreVars, diffOthers>>

DiffNext == AcceptDifficulty

\* ------------------------------ the locks of the TaskManager (task_manager.rs)
\* Two tasks that call add_* functions, one task that calls
\* abort_tasks_for_connection_id under the outer lock, and the registration task.
Adders == {"adder1", "adder2"}
Aborter == "aborter"
Registrar == "registrar"
LockTasks == Adders \cup {Aborter, Registrar}

\* Operations each caller performs.
MaxOps == 2

LockInit ==
    /\ lkOuter = "free"
    /\ lkInner = "free"
    /\ lpc = [p \in LockTasks |-> IF p = Registrar THEN "recv" ELSE "idle"]
    /\ lqueue = 0
    /\ ldone = [p \in LockTasks |-> 0]

\* A caller starts its next operation: it asks for the outer lock
\* (self_.safe_lock(..) in add_*, the caller's safe_lock around
\* abort_tasks_for_connection_id).
LockCall(p) ==
    /\ p \in Adders \cup {Aborter}
    /\ lpc[p] = "idle"
    /\ ldone[p] < MaxOps
    /\ lpc' = [lpc EXCEPT ![p] = "want_outer"]
    /\ UNCHANGED <<lkOuter, lkInner, lqueue, ldone, coreVars, lockOthers>>

\* safe_lock on the outer mutex is granted.
LockOuter(p) ==
    /\ lpc[p] = "want_outer"
    /\ lkOuter = "free"
    /\ lkOuter' = p
    /\ lpc' = [lpc EXCEPT ![p] = "in_outer"]
    /\ UNCHANGED <<lkInner, lqueue, ldone, coreVars, lockOthers>>

\* A faulty AddClone: the guard of the outer mutex is kept while sending.
AddClone_KeepsLock(p) ==
    /\ p \in Adders
    /\ lpc[p] = "in_outer"
    /\ lkOuter' = lkOuter
    /\ lpc' = [lpc EXCEPT ![p] = "send"]
    /\ UNCHANGED <<lkInner, lqueue, ldone, coreVars, lockOthers>>

\* add_*: the closure |s| s.send_task.clone() returns and safe_lock
\* releases the outer mutex; the send comes next.
AddClone(p) ==
    /\ p \in Adders
    /\ lpc[p] = "in_outer"
    /\ lkOuter' = "free"
    /\ lpc' = [lpc EXCEPT ![p] = "send"]
    /\ UNCHANGED <<lkInner, lqueue, ldone, coreVars, lockOthers>>

\* send_task.send(..).await: completes when the channel has room, and with
\* Err when the receiver is gone; suspended while the channel is full.
AddSend(p) ==
    /\ p \in Adders
    /\ lpc[p] = "send"
    /\ IF lpc[Registrar] = "dead"
         THEN lqueue' = lqueue
         ELSE lqueue < ChanCap /\ lqueue' = lqueue + 1
    /\ lpc' = [lpc EXCEPT ![p] = "idle"]
    /\ ldone' = [ldone EXCEPT ![p] = ldone[p] + 1]
    /\ UNCHANGED <<lkOuter, lkInner, coreVars, lockOthers>>

\* abort_tasks_for_connection_id, entered with the outer mutex held, asks
\* for the inner one (self.tasks.safe_lock(..)).
AbortWantInner ==
    /\ lpc[Aborter] = "in_outer"
    /\ lpc' = [lpc EXCEPT ![Aborter] = "want_inner"]
    /\ UNCHANGED <<lkOuter, lkInner, lqueue, ldone, coreVars, lockOthers>>

\* safe_lock on the inner mutex is granted.
LockInner(p) ==
    /\ lpc[p] = "want_inner"
    /\ lkInner = "free"
    /\ lkInner' = p
    /\ lpc' = [lpc EXCEPT ![p] = "in_inner"]
    /\ UNCHANGED <<lkOuter, lqueue, ldone, coreVars, lockOthers>>

\* The closure removes the group and drops its handles (AbortHandle::abort
\* does not wait); the inner mutex is released, the function returns and
\* the caller's closure releases the outer one.
AbortDone ==
    /\ lpc[Aborter] = "in_inner"
    /\ lkInner' = "free"
    /\ lkOuter' = "free"
    /\ lpc' = [lpc EXCEPT ![Aborter] = "idle"]
    /\ ldone' = [ldone EXCEPT ![Aborter] = ldone[Aborter] + 1]
    /\ UNCHANGED <<lqueue, coreVars, lockOthers>>

\* The registration task: receiver.recv().await returned a message; it asks
\* for the inner mutex.
LockRegRecv ==
    /\ lpc[Registrar] = "recv"
    /\ lqueue > 0
    /\ lqueue' = lqueue - 1
    /\ lpc' = [lpc EXCEPT ![Registrar] = "want_inner"]
    /\ UNCHANGED <<lkOuter, lkInner, ldone, coreVars, lockOthers>>

\* The push is done and the inner mutex released; back to recv().
LockRegPushed ==
    /\ lpc[Registrar] = "in_inner"
    /\ lkInner' = "free"
    /\ lpc' = [lpc EXCEPT ![Registrar] = "recv"]
    /\ UNCHANGED <<lkOuter, lqueue, ldone, coreVars, lockOthers>>

\* The registration task is aborted while suspended in recv(): the receiver
\* and the messages queued in it are dropped.
LockRegAbort ==
    /\ lpc[Registrar] = "recv"
    /\ lpc' = [lpc EXCEPT ![Registrar] = "dead"]
    /\ lqueue' = 0
    /\ UNCHANGED <<lkOuter, lkInner, ldone, coreVars, lockOthers>>

LockNext ==
    \/ \E p \in Adders \cup {Aborter} : LockCall(p)
    \/ \E p \in Adders \cup {Aborter} : LockOuter(p)
    \/ \E p \in Adders : AddClone(p)
    \/ \E p \in Adders : AddSend(p)
    \/ AbortWantInner
    \/ \E p \in {Aborter, Registrar} : LockInner(p)
    \/ AbortDone
    \/ LockRegRecv
    \/ LockRegPushed
    \/ LockRegAbort

CfgUnset ==
    /\ cfgOpt = "token"
    /\ cfgFlag = NoneOpt
    /\ cfgFile = NoneOpt
    /\ cfgEnv = [n \in EnvNames |-> NoneOpt]
    /\ cfgArgs = [staging |-> FALSE, local |-> FALSE]
    /\ cfgFileSw = [staging |-> NoneOpt, local |-> NoneOpt]
    /\ cfgEnvSw = [staging |-> FALSE, local |-> FALSE]
    /\ CONFIG = NoConfig
    /\ envName = ""
    /\ poolFrom = ""
    /\ endpoint = NoEndpoint

CoreInit == TMInit /\ SessInit /\ AccInit
Init == CoreInit /\ CfgUnset /\ AodInit /\ MonInit /\ LogInit /\ ExnUnset /\ DiffUnset /\ LockInit
CfgSpecInit == CoreInit /\ CfgInit /\ AodInit /\ MonInit /\ LogInit /\ ExnUnset /\ DiffUnset /\ LockInit
ExnSpecInit == CoreInit /\ CfgUnset /\ AodInit /\ MonInit /\ LogInit /\ ExnInit /\ DiffUnset /\ LockInit
DiffSpecInit == CoreInit /\ CfgUnset /\ AodInit /\ MonInit /\ LogInit /\ ExnUnset /\ DiffInit /\ LockInit
Next == TMNext
Spec == Init /\ [][Next]_vars
SessionSpec == Init /\ [][SessNext]_vars
AcceptSpec == Init /\ [][AccNext]_vars
AcceptLifeSpec == Init /\ [][AccLifeNext]_vars
ConfigSpec == CfgSpecInit /\ [][CfgNext]_vars
AbortOnDropSpec == Init /\ [][AodNext]_vars
SharesSpec == Init /\ [][SharesNext]_vars
BatchSpec == Init /\ [][BatchNext]_vars
LogSpec == Init /\ [][LogNext]_vars
ExtranonceSpec == ExnSpecInit /\ [][ExnNext]_vars
DifficultySpec == DiffSpecInit /\ [][DiffNext]_vars
LockSpec == Init /\ [][LockNext]_vars

\* The registration task is a spawned tokio task: while it is not cancelled
\* the runtime keeps polling it, so a queued message is eventually received.
FairSpec == Init /\ [][LifeNext]_vars /\ WF_vars(RegRecv)

\* ------------------------------------------------- TaskManager properties
\* C1: when abort_tasks_for_connection_id(c) returns, every task enrolled for
\* connection c has been aborted (none is left running), the tasks whose
\* enrollment message is still in the registration channel included.
C1_AbortCoversEveryEnrolledTask ==
    [][\A c \in ConnIds :
          abort_tasks_for_connection_id(c) =>
              \A t \in Enrolled(SomeKey(c)) : status'[t] /= "running"]_vars

\* C2: abort_tasks_for_connection_id(c) leaves every other group as it was:
\* for every key other than Some(c), the global key included, the group is
\* present before iff after, holds the same handles, and each task enrolled in
\* it (stored or still queued) keeps its running/aborted status.
C2_AbortLeavesOtherGroups ==
    [][\A c \in ConnIds :
          abort_tasks_for_connection_id(c) =>
              \A k \in Keys \ {SomeKey(c)} :
                  /\ (k \in DOMAIN tasks') = (k \in DOMAIN tasks)
                  /\ InMap(tasks', k) = InMap(tasks, k)
                  /\ (k \in DOMAIN tasks => tasks'[k] = tasks[k])
                  /\ InChan(chan', k) = InChan(chan, k)
                  /\ \A t \in Enrolled(k) : status'[t] = status[t]]_vars

\* C2 witness: one connection's group has been aborted (with the TaskManager
\* and its registration task alive, only abort_tasks_for_connection_id aborts
\* a task) while a task of another group is stored and still running.
C2_Witness ==
    /\ tmAlive /\ reg = "recv" /\ ~regCancel
    /\ \E t \in TaskIds : status[t] = "aborted"
    /\ \E k \in DOMAIN tasks : \E u \in Range(tasks[k]) : status[u] = "running"

\* C3 as stated: once the TaskManager is dropped and its registration task has
\* settled (cancelled, or in its post-close sleep loop with no cancellation
\* pending), no enrolled task is left running, whether or not get_aborter
\* handed the abort handle to someone else.
C3_DropAbortsAllRegardless ==
    (~tmAlive /\ (reg = "dead" \/ (reg = "sleep" /\ ~regCancel)))
        => \A t \in TaskIds : status[t] /= "running"

\* C3 amended: after the TaskManager is dropped, the registration task's
\* cancellation has been requested unless a handle taken with get_aborter is
\* still held, and once the registration task has been cancelled no enrolled
\* task (stored or queued, global or per-connection) is left running.
C3_DropAbortsAllOnceCancelled ==
    ~tmAlive =>
        /\ (aborter /= "held" => regCancel)
        /\ (reg = "dead" => /\ \A t \in TaskIds : status[t] /= "running"
                            /\ tasks = EmptyMap /\ chan = <<>>)

\* C3 witness: get_aborter was called and the handle dropped, the TaskManager
\* was dropped, the registration task is cancelled, and every task was
\* enrolled and is aborted.
C3_Witness ==
    /\ ~tmAlive /\ reg = "dead" /\ aborter = "dropped"
    /\ \A t \in TaskIds : status[t] = "aborted"

\* ----------------------------------------------------- session properties
\* C4: whenever the reader has stopped processing input in its own code
\* (EOF, a line that is no JSON-RPC message, a save_share failure),
\* remove_downstream_hashrate_from_channel has been invoked exactly once.
C4_ReaderStopReleasesHashrateOnce ==
    rpc \in {"returned", "done"} => hashrateCalls = 1

\* C5: when the reader has stopped on a line that is no JSON-RPC message, it
\* has sent the kill signal carrying its connection id.
C5_ParseErrorSendsKillSignal ==
    rpc = "returned" => connection_id \in Range(kills)

\* C6: over any sequence of mining.authorize calls on the session the first
\* returns true, every later one false, and exactly one Connected event fires.
C6_AuthorizeTrueOnlyOnce ==
    /\ \A i \in 1..Len(authReplies) : authReplies[i] = (i = 1)
    /\ authReplies /= <<>> => connected = 1

\* C7: handling mining.configure stores the computed mask and registers
\* first_job in recent_jobs under a fresh v1 job id.
C7_ConfigureRegistersFirstJob ==
    [][handle_configure =>
          /\ version_rolling_mask' = Some(lastReply'.mask)
          /\ \E i \in 1..Len(recent_jobs') :
                /\ recent_jobs'[i].job = first_job
                /\ recent_jobs'[i].id \notin JobIds(recent_jobs)]_vars

\* Bit i of the natural n.
Bit(n, i) == (n \div (2 ^ i)) % 2

C9_AuthorizeTrueOnlyAfterSubscribe ==
    [][(handle_authorize /\ lastReply'.result = TRUE) => subscribed]_vars

\* C10: a mining.submit whose job id is not in recent_jobs is answered with
\* result false and the reader goes on to receive the next line.
C10_UnknownJobSubmitAnsweredFalse ==
    [][(handle_submit /\ cur.job \notin JobIds(recent_jobs)) =>
          /\ lastReply' = [method |-> "mining.submit", result |-> FALSE]
          /\ rpc' = "recv"]_vars


\* C18: after abort_tasks_for_connection_id(c), a group found under Some(c)
\* holds only tasks that were enrolled after that abort: no handle that was
\* already enrolled for c when the abort ran is stored in the map again.
C18_AbortedGroupStartsFresh ==
    \A k \in DOMAIN tasks : Range(tasks[k]) \cap stale = {}

\* C19: every handle, in the map or on its way to it, sits under the key it
\* was enrolled with; the key is None exactly for the accept-connection and
\* shares-monitor tasks and Some(connection_id) for the reader, writer, notify
\* and update tasks.
C19_GroupsMatchEnrollment ==
    /\ \A k \in DOMAIN tasks : \A t \in Range(tasks[k]) :
          /\ meta[t].enrolled
          /\ meta[t].key = k
          /\ meta[t].global <=> (k = NoneKey)
    /\ \A i \in 1..Len(chan) :
          /\ meta[chan[i].task].enrolled
          /\ meta[chan[i].task].key = chan[i].key
          /\ meta[chan[i].task].global <=> (chan[i].key = NoneKey)
          /\ (chan[i].kind \in GlobalKinds) <=> (chan[i].key = NoneKey)

\* The map holds the global group and a connection group at once.
C19_Witness ==
    /\ NoneKey \in DOMAIN tasks
    /\ \E c \in ConnIds : SomeKey(c) \in DOMAIN tasks /\ Len(tasks[SomeKey(c)]) >= 2

\* In this step t enters the map only by the registration task's push, leaves
\* a map that stays alive only by abort_tasks_for_connection_id for its own
\* connection, and stays where it is when it runs to completion.
GroupsChangeOnlyBy(t) ==
    /\ (t \notin AllHandles(tasks) /\ t \in AllHandles(tasks'))
          => (RegRecv /\ Head(chan).task = t /\ t \in InMap(tasks', Head(chan).key))
    /\ (t \in AllHandles(tasks) /\ t \notin AllHandles(tasks') /\ (tmAlive' \/ reg' /= "dead"))
          => \E c \in ConnIds : /\ abort_tasks_for_connection_id(c)
                                 /\ meta[t].key = SomeKey(c)
    /\ TaskFinish(t) => (tasks' = tasks /\ chan' = chan)

\* C20: a task whose add_* call returned Ok (its message is queued) is
\* eventually recorded under its group key unless the registration task is
\* cancelled first; a task that runs to completion stays in its group; a
\* group gains a handle only through the registration task and loses its
\* handles only through abort_tasks_for_connection_id.
C20_EnrolledTasksGetRecorded ==
    /\ \A t \in TaskIds :
          (t \in ChanHandles(chan)) ~> (t \in InMap(tasks, meta[t].key) \/ reg = "dead")
    /\ [][\A t \in TaskIds : GroupsChangeOnlyBy(t)]_vars

\* A task that ran to completion is still held in its group.
C20_Witness ==
    \E t \in TaskIds : status[t] = "finished" /\ t \in AllHandles(tasks)

\* C11: save_share records a vardiff timestamp for a submit only when the
\* submit's job id is one of the ids held in recent_jobs.
C11_ShareSavedOnlyForKnownJob ==
    [][(ReaderSaveShare /\ shares' = shares + 1) => cur.job \in JobIds(recent_jobs)]_vars

\* C15: when handle_incoming_sv1 returns Err for a well-formed message the
\* reader marks the downstream state, sends no kill signal, releases no
\* hashrate, removes no stats and waits for the next line.
C15_HandlerErrorKeepsSession ==
    [][ReaderHandleErr => /\ downFaulty'
                          /\ kills' = kills
                          /\ hashrateCalls' = hashrateCalls
                          /\ statsRemoved' = statsRemoved
                          /\ inconsistency' = inconsistency
                          /\ rpc' = "recv"]_vars

\* A later line is being parsed after a handler error was recorded.
C15_Witness ==
    downFaulty /\ rpc = "parse" /\ nlines >= 2 /\ kills = <<>> /\ hashrateCalls = 0

\* C16: lines are handled one at a time in the order recv() returns them: the
\* next line is taken only when every earlier one has been handled, a share
\* is saved only for the line just received, and each handling step
\* completes exactly the latest received line.
C16_LinesHandledInOrder ==
    [][/\ ReaderRecv => (rpc = "recv" /\ handled = nlines)
       /\ (shares' /= shares) => (rpc = "parse" /\ handled = nlines - 1)
       /\ handled' \in {handled, handled + 1}
       /\ (handled' = handled + 1) => (rpc = "handle" /\ handled' = nlines)]_vars

\* A third line has been received after two were handled.
C16_Witness ==
    handled >= 2 /\ nlines = handled + 1 /\ rpc = "parse"

\* C17: the inconsistency flag is up exactly when the reader has finished
\* and its kill signal was not sent; a parse error, a handler error, a
\* save_share error or a hashrate-removal error never raises it.
C17_InconsistencyIffKillSendFails ==
    inconsistency <=> (rpc = "done" /\ connection_id \notin Range(kills))

\* The reader has finished after a handler error and a failed kill-signal send.
C17_Witness ==
    inconsistency /\ rpc = "done" /\ downFaulty

\* C12: a session sees every Notify broadcast after the last_notify it was
\* opened with: its receiver is subscribed from exactly that Notify on.
C12_NoNotifyMissedAtOpen ==
    \A s \in sessions : s.subAt = s.last_notify

\* C13: every new_downstream call is for a connection Bridge::ready returned
\* Ok for and carries exactly the channel_id, extranonce and extranonce2_len
\* on_new_sv1_connection allocated for that connection; a connection has at
\* most one session; every allocated channel was handed to the accept task,
\* and has its session unless the accept task is just about to create it.
C13_SessionMatchesOpenedChannel ==
    /\ \A s \in sessions :
          /\ s.conn \in readyFor
          /\ \E g \in granted : /\ g.conn = s.conn
                                  /\ g.chan.channel_id = s.channel_id
                                  /\ g.chan.extranonce = s.extranonce
                                  /\ g.chan.extranonce2_len = s.extranonce2_len
    /\ \A s1, s2 \in sessions :
          (s1.conn = s2.conn \/ s1.channel_id = s2.channel_id) => s1 = s2
    /\ Cardinality(granted) = bridgeChannels
    /\ \A g \in granted :
          \/ \E s \in sessions : s.conn = g.conn
          \/ apc = "create" /\ g.conn = accepted /\ opened = g.chan

\* Two connections have their sessions.
C13_Witness ==
    Cardinality(sessions) = 2 /\ bridgeChannels = 2 /\ apc = "recv"

\* C14: a failing on_new_sv1_connection creates no session for the connection
\* in hand, drops its send and recv, allocates no channel, and leaves the
\* sessions opened before untouched.
C14_FailedOpenLeavesEarlierSessions ==
    [][(AcceptOpen /\ apc' = "ended") =>
          /\ sessions' = sessions
          /\ \A s \in sessions' : s.conn /= accepted
          /\ accepted \in closed'
          /\ bridgeChannels' = bridgeChannels
          /\ granted' = granted]_vars

\* The Bridge refused a connection after a session had been opened.
C14_Witness ==
    /\ apc = "ended"
    /\ downFaulty
    /\ sessions /= {}
    /\ accepted \in closed
    /\ accepted \in readyFor

\* C21: a worker name is reported as authorized only if handle_authorize was
\* called with that name earlier on the session.
C21_AuthorizedOnlyAfterAuthorize ==
    \A n \in Names : is_authorized(n) => n \in authorizeSeen

\* C22: handle_subscribe stores the agent of the request as user_agent,
\* whatever was stored before, and returns the set_difficulty tuple followed
\* by the notify tuple with the fixed id; the Connected WorkerActivity built
\* by handle_authorize carries the user_agent stored at that moment and the
\* name of the request.
C22_SubscribeRecordsAgent ==
    [][/\ handle_subscribe =>
            /\ user_agent' = cur.agent
            /\ Len(lastReply'.result) = 2
            /\ lastReply'.result[1][1] = "mining.set_difficulty"
            /\ lastReply'.result[2] = <<"mining.notify", "ae6812eb4cd7735a302a8a9dd95cf71f">>
       /\ handle_authorize =>
            lastActivity' = WorkerActivity(user_agent, cur.name, "Connected")
       /\ (user_agent' /= user_agent) => (rpc = "handle" /\ cur.kind = "subscribe")]_vars

\* An authorize was handled after a subscribe and a later line is in hand.
C22_Witness ==
    /\ lastActivity /= NoActivity
    /\ lastActivity.user_agent \in Agents
    /\ lastActivity.user_agent = user_agent
    /\ handled >= 2

\* C23: the effective value of a valued option is the flag's if a flag is
\* given; without a flag it is the value of the option's environment
\* variable if that is set (and reads as a value of the option's type), also
\* when the config file has an entry.
C23_FlagOverEnvOverFile ==
    LET own == cfgEnv[OwnEnvVar(cfgOpt)]
        usable == IF cfgOpt \in NumericOptions THEN ParseNumber(own) ELSE own
    IN CONFIG /= NoConfig =>
          /\ cfgFlag /= NoneOpt => CONFIG.value = cfgFlag
          /\ (cfgFlag = NoneOpt /\ usable /= NoneOpt) => CONFIG.value = usable

\* C24: the environment Configuration::environment reports, the one the
\* monitor endpoints are built for and the one fetch_pool_urls picks the pool
\* address by are the same.
C24_OneEnvironmentEverywhere ==
    /\ (envName /= "" /\ poolFrom /= "") => poolFrom = envName
    /\ (envName /= "" /\ endpoint /= NoEndpoint) => endpoint[1] = EndpointBase(envName)

\* C25: dropping an AbortOnDrop leaves none of the tasks given to it (by
\* new/from or add_task) running, aborting those that still ran; is_finished
\* answers true exactly when every task given to it has finished.
C25_DropAbortsEveryHeldTask ==
    [][/\ AodDrop => \A t \in given :
                        /\ hstatus'[t] /= "running"
                        /\ hstatus[t] = "running" => hstatus'[t] = "aborted"
       /\ AodIsFinished =>
            (isFin' = Some(TRUE) <=> \A t \in given : hstatus[t] = "finished")]_vars

\* An AbortOnDrop with several tasks was dropped while one still ran and
\* another had finished.
C25_Witness ==
    /\ aodState = "dropped"
    /\ Cardinality(given) >= 2
    /\ \E t \in given : hstatus[t] = "aborted"
    /\ \E t \in given : hstatus[t] = "finished"
    /\ isFin = Some(FALSE)

\* C26: a share leaves the pending list only after it was part of the batch
\* of a send_shares call that succeeded: whenever the list shrinks, every
\* share taken out was in the batch just sent and that send returned Ok.
C26_NoShareLost ==
    [][Len(pending') < Len(pending) =>
          /\ lastSend = "ok"
          /\ \A x \in Range(pending) \ Range(pending') : x \in Range(snapshot)]_vars

\* C27: in monitor/shares.rs a failed send_shares leaves the pending list as
\* it is and the loop waits for the next tick, which offers the same shares
\* again; the list is emptied only right after a send that returned Ok.
C27_FailedSendKeepsShares ==
    [][/\ (MonSend /\ lastSend' = "err") => (pending' = pending /\ mpc' = "tick")
       /\ (pending' /= pending /\ ~insert_share) => (mpc = "clear" /\ lastSend = "ok")
       /\ (MonTick /\ lastSend = "err") => snapshot' = pending]_vars

\* After a failed send the next tick offers the pending shares again.
C27_Witness ==
    /\ lastSend = "err"
    /\ mpc = "send"
    /\ snapshot = pending
    /\ Len(pending) >= 2

\* C28: in shares_monitor.rs a tick leads to a send attempt exactly when at
\* least BATCH_SIZE shares are pending; a tick with fewer leaves the list as
\* it is; every send attempt, whatever its result, is followed by clearing
\* the list, and the list is cleared at no other point.
C28_SendOnlyFullBatches ==
    [][/\ BatchTick => /\ pending' = pending
                       /\ (mpc' = "send") <=> (Len(pending) >= BATCH_SIZE)
       /\ BatchSend => (mpc' = "clear" /\ Len(snapshot) >= BATCH_SIZE /\ pending' = pending)
       /\ BatchClear => pending' = <<>>
       /\ (pending' /= pending /\ ~insert_share) =>
              (mpc = "clear" /\ Len(snapshot) >= BATCH_SIZE)]_vars

\* A full batch was attempted, the attempt failed and the list was cleared.
C28_Witness ==
    /\ inserted >= BATCH_SIZE
    /\ lastSend = "err"
    /\ pending = <<>>
    /\ mpc = "tick"

\* C29: send_log is attempted once for each ERROR event the program raises
\* and no more: a failed attempt starts no further attempt.
C29_OnePostPerError ==
    logPosts = origErrors

\* C30: when an add_* function fails because the registration task has stopped,
\* the task being enrolled ends up aborted, nothing is queued or recorded for
\* it, and the caller returns TranslatorTaskManagerFailed.
C30_RefusedEnrollmentAbortsTask ==
    [][\A t \in TaskIds :
          (status[t] = "new" /\ status'[t] /= "new" /\ reg = "dead") =>
              /\ status'[t] = "aborted"
              /\ chan' = chan
              /\ tasks' = tasks
              /\ addResult' = "TranslatorTaskManagerFailed"]_vars

\* An enrollment was refused: its caller returned the error and the task it
\* had spawned is aborted.
C30_Witness ==
    /\ addResult = "TranslatorTaskManagerFailed"
    /\ reg = "dead"
    /\ \E t \in TaskIds : status[t] = "aborted" /\ t \notin ChanHandles(chan) \cup AllHandles(tasks)

\* C31: the accept loop stops for good at the first failure. Once Bridge::ready
\* returned Err, the bridge lock failed or on_new_sv1_connection returned an
\* error, the accept task has ended, the connection in hand has no session,
\* and from then on no connection is taken and no session is created; the
\* downstream state is marked by the accept task only when
\* on_new_sv1_connection returned an error.
C31_AcceptStopsAtFirstFailure ==
    /\ [](stopCause \in {"not_ready", "poisoned", "refused"} =>
             /\ apc = "ended"
             /\ accepted \in closed
             /\ \A s \in sessions : s.conn /= accepted)
    /\ [][apc = "ended" =>
             /\ apc' = "ended"
             /\ accepted' = accepted
             /\ sessions' = sessions
             /\ stopCause' = stopCause]_vars
    /\ [][downFaulty' /= downFaulty => (apc = "open" /\ stopCause' = "refused")]_vars

\* The Bridge was not ready for the second connection: the loop was left with
\* one session open and a further connection still to be delivered.
C31_Witness ==
    /\ apc = "ended"
    /\ stopCause = "not_ready"
    /\ accepted = 2
    /\ Cardinality(sessions) = 1
    /\ ~downFaulty

C32_CleanupOrder ==
    /\ [][statsRemoved' /= statsRemoved =>
             (hashrateCalls = 0 /\ kills = <<>> /\ ~inconsistency)]_vars
    /\ [][hashrateCalls' /= hashrateCalls =>
             (statsRemoved = 1 /\ kills = <<>> /\ ~inconsistency /\ rpc' = "kill")]_vars
    /\ [][(kills' /= kills \/ inconsistency' /= inconsistency) =>
             (statsRemoved = 1 /\ hashrateCalls = 1)]_vars
    /\ [][rpc = "kill" => (rpc' = "done" /\ (kills' = <<connection_id>> \/ inconsistency'))]_vars

\* The hashrate removal returned an error and the kill signal was sent all
\* the same.
C32_Witness ==
    /\ rpc = "done"
    /\ hashrateFailed
    /\ statsRemoved = 1
    /\ kills = <<connection_id>>

\* C33: handle_authorize records the session's first job in recent_jobs with
\* the version-rolling mask the session holds at that moment (None before any
\* configure); a step that changes the session mask leaves recent_jobs and
\* the masks recorded in it as they were.
C33_JobKeepsMaskOfAuthorize ==
    /\ [][authReplies' /= authReplies =>
             /\ Len(recent_jobs') = Len(recent_jobs) + 1
             /\ recent_jobs'[Len(recent_jobs')].job = first_job
             /\ recent_jobs'[Len(recent_jobs')].mask = version_rolling_mask
             /\ \A i \in 1..Len(recent_jobs) : recent_jobs'[i] = recent_jobs[i]]_vars
    /\ [][version_rolling_mask' /= version_rolling_mask => recent_jobs' = recent_jobs]_vars
    /\ [](authReplies /= <<>> => \E i \in 1..Len(recent_jobs) : recent_jobs[i].job = first_job)

\* authorize was handled before any configure, and a configure handled
\* afterwards gave the session a mask: the job still carries None.
C33_Witness ==
    /\ Len(recent_jobs) = 1
    /\ recent_jobs[1].job = first_job
    /\ recent_jobs[1].mask = NoneOpt
    /\ version_rolling_mask /= NoneOpt
    /\ authReplies = <<TRUE>>

C38_AbortIdempotentAborterOnce ==
    /\ [][\A c \in ConnIds :
             abort_tasks_for_connection_id(c) =>
                 /\ SomeKey(c) \notin DOMAIN tasks'
                 /\ (SomeKey(c) \notin DOMAIN tasks =>
                        (status' = status /\ tasks' = tasks /\ chan' = chan))]_vars
    /\ [][get_aborter =>
             /\ abort' = "none"
             /\ (aborter = "unissued") <=> (abort = "some")
             /\ aborter' = IF aborter = "unissued" THEN "held" ELSE aborter]_vars

\* A connection's group was aborted and removed while the registration task
\* had already been handed out by get_aborter.
C38_Witness ==
    /\ tmAlive
    /\ reg = "recv"
    /\ aborter = "held"
    /\ abort = "none"
    /\ \E t \in TaskIds : status[t] = "aborted"
    /\ \A c \in ConnIds : SomeKey(c) \notin DOMAIN tasks
    /\ NoneKey \in DOMAIN tasks

LockQuiescent ==
    /\ \A p \in Adders \cup {Aborter} : lpc[p] = "idle" /\ ldone[p] = MaxOps
    /\ lpc[Registrar] \in {"recv", "dead"}
    /\ lqueue = 0

\* C35: the TaskManager cannot deadlock. No task is suspended in an await
\* (send, recv) while it owns a mutex; the inner mutex is never owned by a
\* task that asks for the outer one; and as long as an operation is
\* unfinished or a message is queued, some task can take a step.
C35_NoDeadlock ==
    /\ \A p \in LockTasks :
          lpc[p] \in {"send", "recv", "idle", "dead"} => (lkOuter /= p /\ lkInner /= p)
    /\ \A p \in LockTasks : lpc[p] = "want_outer" => lkInner /= p
    /\ LockQuiescent \/ ENABLED LockNext

\* An add_* call waits for room in a full channel while the aborter, inside
\* the outer mutex, waits for the inner one the registration task owns.
C35_Witness ==
    /\ lqueue = ChanCap
    /\ \E p \in Adders : lpc[p] = "send"
    /\ lpc[Aborter] = "want_inner"
    /\ lkOuter = Aborter
    /\ lkInner = Registrar

====
